---- MODULE Spec2Model ----
(***************************************************************************)
(* Flowsheet builders of IDAES-PSE-Examples as a state machine.            *)
(*                                                                         *)
(* Every builder function and script of the repository is a straight-line  *)
(* program over one flowsheet: it creates property packages, declares unit *)
(* models and arcs, expands the arcs, asks for the degrees of freedom,     *)
(* fixes variables, initializes units, calls the nonlinear solver and      *)
(* prints or returns results.  The model keeps each builder's statements   *)
(* in source order (with their source line) and interprets them one        *)
(* statement per step.  What the framework does inside a statement (the    *)
(* variables and constraints a unit brings, what expanding an arc adds,    *)
(* whether an initialization or a solve succeeds) is modelled by the       *)
(* schema operators below and by nondeterministic outcomes.                *)
(***************************************************************************)
EXTENDS Integers, Sequences, FiniteSets, TLC

VARIABLES
    builder,      \* the builder function or script being run
    perm,         \* order in which the builder's Arc statements are taken
    pc,           \* index of the next statement of Program(builder)
    status,       \* "loading" | "called" | "running" | "returned" | "failed"
    packages,     \* property packages created on the flowsheet
    units,        \* unit models declared on the flowsheet
    arcs,         \* sequence of declared arcs, in declaration order
    expansions,   \* number of applications of network.expand_arcs
    constraints,  \* equality constraints produced by arc expansion
    fixed,        \* set of fixed variables
    dofLog,       \* degrees-of-freedom analyses made so far
    initialized,  \* units whose initialize() returned, in order
    solveLog,     \* solver invocations made so far
    termination,  \* termination condition of the last solve that returned
    reported,     \* TRUE once variable values were printed as solve results
    failure,      \* the last exception raised
    args,         \* how the builder was called: "none" (no arguments) | "all"
    origin,       \* where the current value of each variable comes from
    initLog,      \* initialize() calls that returned, with the inlet guesses
    values,       \* the values given to fixed variables (where known)
    retval,       \* what the builder returned
    reports,      \* what the builder's report function returned
    curve,        \* the performance-curve lookup under evaluation
    configuration,\* the module-level configuration mappings, once imported
    built,        \* the generic property packages built so far, all calls
    calls         \* number of builder calls made in this interpreter

vars == <<builder, perm, pc, status, packages, units, arcs, expansions,
          constraints, fixed, dofLog, initialized, solveLog, termination,
          reported, failure, args, origin, initLog, values, retval, reports,
          curve, configuration, built, calls>>

\* the state of the interpreter that outlives one builder call
moduleVars == <<configuration, built, calls>>

(***************************************************************************)
(* The configuration mappings of the two property-package modules.  A      *)
(* number keeps its value (temperatures in hundredths of a kelvin); a      *)
(* parameter_data entry keeps the shape of the expression written for it.  *)
(***************************************************************************)

\* (value, unit): a two-element tuple
ValueUnit == [shape |-> "pair", raises |-> ""]

\* a bare number, as in "eqn_type": 1
Bare == [shape |-> "number", raises |-> ""]

\* (x + 273.15.K): one parenthesised expression, no comma; 273.15.K reads the
\* attribute K of a float, which raises AttributeError when evaluated
FloatAttribute == [shape |-> "expression", raises |-> "AttributeError"]

Entries(name, keys, entry) == [k \in {<<name, key>> : key \in keys} |-> entry]

\* the parameter_data entries the two modules write alike, keyed by
\* <<name, key>> (key "" where the entry is not a nested dictionary)
parameter_data_common ==
    Entries("mw", {""}, ValueUnit)
        @@ Entries("pressure_crit", {""}, ValueUnit)
        @@ Entries("temperature_crit", {""}, ValueUnit)
        @@ Entries("dens_mol_liq_comp_coeff", {"eqn_type"}, Bare)
        @@ Entries("dens_mol_liq_comp_coeff", {"1", "2", "3", "4"}, ValueUnit)
        @@ Entries("cp_mol_liq_comp_coeff", {"1", "2", "3", "4", "5"}, ValueUnit)
        @@ Entries("enth_mol_form_liq_comp_ref", {""}, ValueUnit)
        @@ Entries("enth_mol_form_vap_comp_ref", {""}, ValueUnit)

\* a component of methanol_ethanol.configuration (methanol and ethanol are
\* written with the same keys)
methanol_ethanol_component ==
    [type |-> "Component",
     phase_equilibrium_form |-> (<<"Vap", "Liq">> :> "fugacity"),
     parameter_data |->
        parameter_data_common
            @@ Entries("cp_mol_ig_comp_coeff", {"A", "B", "C", "D"}, ValueUnit)
            @@ Entries("pressure_sat_comp_coeff", {"A", "B", "C"}, ValueUnit)]

\* the component methane of gas.configuration
gas_component ==
    [type |-> "Component",
     phase_equilibrium_form |-> (<<"Vap", "Liq">> :> "fugacity"),
     parameter_data |->
        parameter_data_common
            @@ Entries("cp_mol_ig_comp_coeff", {"A", "B", "C", "D", "E"}, ValueUnit)
            @@ Entries("pressure_sat_comp_coeff", {"A", "B"}, ValueUnit)
            @@ Entries("pressure_sat_comp_coeff", {"C"}, FloatAttribute)]

\* the keys both modules write after "components", with the same values
configuration_common(components) ==
    [components |-> components,
     phases |-> [Liq |-> "Ideal", Vap |-> "Ideal"],
     base_units |-> [time |-> "s", length |-> "m", mass |-> "kg",
                     amount |-> "mol", temperature |-> "K"],
     state_definition |-> "FTPx",
     state_bounds |-> [flow_mol    |-> <<0, 100, 1000, "mol/s">>,
                       temperature |-> <<27315, 30000, 45000, "K">>,
                       pressure    |-> <<50000, 100000, 1000000, "Pa">>],
     pressure_ref |-> <<100000, "Pa">>,
     temperature_ref |-> <<30000, "K">>,
     phases_in_equilibrium |-> {<<"Vap", "Liq">>},
     phase_equilibrium_state |-> (<<"Vap", "Liq">> :> "SmoothVLE"),
     bubble_dew_method |-> "IdealBubbleDew"]

\* the dictionary display assigned to configuration in each module
ConfigurationDisplay(module) ==
    IF module = "gas"
    THEN configuration_common([methane |-> gas_component])
    ELSE configuration_common([methanol |-> methanol_ethanol_component,
                               ethanol  |-> methanol_ethanol_component])

ConfigModules == {"methanol_ethanol", "gas"}

\* the exceptions raised while the dictionary display of a module is
\* evaluated
RaisedBy(module) ==
    LET m == ConfigurationDisplay(module)
    IN  {m.components[c].parameter_data[k].raises :
            <<c, k>> \in UNION {{c} \X DOMAIN m.components[c].parameter_data :
                                   c \in DOMAIN m.components}} \ {""}

\* the name configuration of a module: not bound, or bound to a mapping
Unbound == [loaded |-> FALSE]
Bound(mapping) == [loaded |-> TRUE, mapping |-> mapping]

(***************************************************************************)
(* Property packages: the state variables a state block exposes.           *)
(***************************************************************************)

\* FTPx state definition over the components of a configuration mapping
StateVarsFTPx(components) ==
    {"flow_mol", "temperature", "pressure"}
        \cup {"mole_frac_comp_" \o c : c \in components}

\* methanol_ethanol.configuration: components methanol, ethanol; FTPx
MethanolEthanolSchema ==
    StateVarsFTPx(DOMAIN ConfigurationDisplay("methanol_ethanol").components)

\* gas.configuration: component methane; FTPx
GasSchema == StateVarsFTPx(DOMAIN ConfigurationDisplay("gas").components)

\* iapws95.Iapws95ParameterBlock(): flow, molar enthalpy, pressure
Iapws95Schema == {"flow_mol", "enth_mol", "pressure"}

StateVars(config) ==
    CASE config = "methanol_ethanol" -> MethanolEthanolSchema
      [] config = "gas"              -> GasSchema
      [] config = "iapws95"          -> Iapws95Schema
      [] OTHER                       -> {}

\* The generic (modular) packages write property constraints over the state
\* variables of every state block; the Helmholtz package only expressions.
HasPropertyConstraints(config) == config \in {"methanol_ethanol", "gas"}

(***************************************************************************)
(* Statements.  Every statement is a record of the same shape.             *)
(***************************************************************************)

NoPort == <<"", "">>
NoVar  == <<"", "", "">>

Stmt(op, line) ==
    [op |-> op, line |-> line, name |-> "", kind |-> "", pkg |-> "",
     pkg2 |-> "", list |-> {}, src |-> NoPort, dst |-> NoPort, var |-> NoVar]

\* m.fs.<name> = GenericParameterBlock(**configuration) / Iapws95ParameterBlock()
PackageS(line, name, config) ==
    [Stmt("package", line) EXCEPT !.name = name, !.kind = config]

\* m.fs.<name> = <Kind>(property_package=m.fs.<pkg>, ...)
UnitS(line, name, kind, pkg) ==
    [Stmt("unit", line) EXCEPT !.name = name, !.kind = kind, !.pkg = pkg]

\* Mixer(inlet_list=...) and Separator(outlet_list=...)
UnitListS(line, name, kind, pkg, list) ==
    [UnitS(line, name, kind, pkg) EXCEPT !.list = list]

\* HeatExchanger(shell={"property_package": pkg}, tube={"property_package": pkg2})
UnitTwoS(line, name, kind, pkg, pkg2) ==
    [UnitS(line, name, kind, pkg) EXCEPT !.pkg2 = pkg2]

\* m.fs.<name> = Arc(source=m.fs.<su>.<sp>, destination=m.fs.<du>.<dp>)
ArcS(line, name, su, sp, du, dp) ==
    [Stmt("arc", line) EXCEPT !.name = name, !.src = <<su, sp>>, !.dst = <<du, dp>>]

\* TransformationFactory("network.expand_arcs").apply_to(m)
ExpandS(line) == Stmt("expand", line)

\* degrees_of_freedom(m)
DofS(line) == Stmt("dof", line)

\* m.fs.<unit>.<port>.<var>.fix(value); port "" for a unit-level variable
FixS(line, unit, port, var) ==
    [Stmt("fix", line) EXCEPT !.var = <<unit, port, var>>]

\* m.fs.<unit>.initialize()
InitS(line, unit) == [Stmt("init", line) EXCEPT !.name = unit]

\* solver.solve(m)
SolveS(line) == Stmt("solve", line)

\* print(value(...)) / print(unit.report()) with no test of the solve result
ReportS(line) == Stmt("report", line)

\* if results.solver.termination_condition == 'optimal': use value(...)
ReportIfOptimalS(line) == Stmt("report_if_optimal", line)

\* except Exception as e: print(f"Initialization failed: {str(e)}")
ExceptPrintS(line) == Stmt("except_print", line)

\* return m, result / end of script
ReturnS(line) == Stmt("return", line)

\* the five fixes of an FTPx methanol/ethanol feed, on consecutive lines
FeedFixes(line, unit) ==
    << FixS(line,     unit, "outlet", "flow_mol"),
       FixS(line + 1, unit, "outlet", "mole_frac_comp_methanol"),
       FixS(line + 2, unit, "outlet", "mole_frac_comp_ethanol"),
       FixS(line + 3, unit, "outlet", "pressure"),
       FixS(line + 4, unit, "outlet", "temperature") >>

(***************************************************************************)
(* The builders, statement by statement, in source order.                  *)
(***************************************************************************)

\* faulty variant of HeaterDutyProgram: the feed temperature is never fixed
HeaterDutyProgramNoTemperature ==
    << PackageS(39, "properties", "methanol_ethanol"),
       UnitS(40, "feed", "Feed", "properties"),
       UnitS(41, "heater", "Heater", "properties"),
       UnitS(42, "product", "Product", "properties"),
       ArcS(45, "s01", "feed", "outlet", "heater", "inlet"),
       ArcS(46, "s02", "heater", "outlet", "product", "inlet"),
       ExpandS(47),
       DofS(49),
       FixS(51, "feed", "outlet", "flow_mol"),
       FixS(52, "feed", "outlet", "mole_frac_comp_methanol"),
       FixS(53, "feed", "outlet", "mole_frac_comp_ethanol"),
       FixS(54, "feed", "outlet", "pressure"),
       FixS(57, "heater", "", "heat_duty"),
       DofS(59),
       SolveS(62),
       ReturnS(64) >>

\* Heater_Cooler/heater_cooler.py: setup_heater_heat_duty_model
HeaterDutyProgram ==
    << PackageS(39, "properties", "methanol_ethanol"),
       UnitS(40, "feed", "Feed", "properties"),
       UnitS(41, "heater", "Heater", "properties"),
       UnitS(42, "product", "Product", "properties"),
       ArcS(45, "s01", "feed", "outlet", "heater", "inlet"),
       ArcS(46, "s02", "heater", "outlet", "product", "inlet"),
       ExpandS(47),
       DofS(49) >>
    \o FeedFixes(51, "feed")
    \o << FixS(57, "heater", "", "heat_duty"),
          DofS(59),
          SolveS(62),
          ReturnS(64) >>

\* Heater_Cooler/heater_cooler.py: setup_heater_outlet_temperature_model
HeaterTempProgram ==
    << PackageS(84, "properties", "methanol_ethanol"),
       UnitS(85, "feed", "Feed", "properties"),
       UnitS(86, "heater", "Heater", "properties"),
       UnitS(87, "product", "Product", "properties"),
       ArcS(90, "s01", "feed", "outlet", "heater", "inlet"),
       ArcS(91, "s02", "heater", "outlet", "product", "inlet"),
       ExpandS(92),
       DofS(94) >>
    \o FeedFixes(96, "feed")
    \o << FixS(102, "heater", "outlet", "temperature"),
          DofS(104),
          SolveS(107),
          ReturnS(109) >>

\* faulty variant of PumpProgram: Pump_4 gets its pressure change fixed as
\* well as its outlet pressure
PumpProgramOverSpecified ==
    << PackageS(50, "properties", "methanol_ethanol"),
       UnitS(51, "methanol_ethanol_mix", "Feed", "properties"),
       UnitS(52, "Pump_3", "Pump", "properties"),
       UnitS(53, "Pump_4", "Pump", "properties"),
       UnitS(54, "product", "Product", "properties"),
       ArcS(57, "s01", "methanol_ethanol_mix", "outlet", "Pump_3", "inlet"),
       ArcS(58, "s02", "Pump_3", "outlet", "Pump_4", "inlet"),
       ArcS(59, "s03", "Pump_4", "outlet", "product", "inlet"),
       ExpandS(60),
       DofS(63) >>
    \o FeedFixes(65, "methanol_ethanol_mix")
    \o << FixS(71, "Pump_3", "", "deltaP"),
          FixS(72, "Pump_3", "", "efficiency_pump"),
          FixS(73, "Pump_4", "outlet", "pressure"),
          FixS(73, "Pump_4", "", "deltaP"),
          FixS(74, "Pump_4", "", "efficiency_pump"),
          DofS(77),
          InitS(80, "methanol_ethanol_mix"),
          InitS(81, "Pump_3"),
          InitS(82, "Pump_4"),
          InitS(83, "product"),
          SolveS(87),
          ReturnS(89) >>

\* Pump/pump.py: setup_pump_methanol_ethanol_model
PumpProgram ==
    << PackageS(50, "properties", "methanol_ethanol"),
       UnitS(51, "methanol_ethanol_mix", "Feed", "properties"),
       UnitS(52, "Pump_3", "Pump", "properties"),
       UnitS(53, "Pump_4", "Pump", "properties"),
       UnitS(54, "product", "Product", "properties"),
       ArcS(57, "s01", "methanol_ethanol_mix", "outlet", "Pump_3", "inlet"),
       ArcS(58, "s02", "Pump_3", "outlet", "Pump_4", "inlet"),
       ArcS(59, "s03", "Pump_4", "outlet", "product", "inlet"),
       ExpandS(60),
       DofS(63) >>
    \o FeedFixes(65, "methanol_ethanol_mix")
    \o << FixS(71, "Pump_3", "", "deltaP"),
          FixS(72, "Pump_3", "", "efficiency_pump"),
          FixS(73, "Pump_4", "outlet", "pressure"),
          FixS(74, "Pump_4", "", "efficiency_pump"),
          DofS(77),
          InitS(80, "methanol_ethanol_mix"),
          InitS(81, "Pump_3"),
          InitS(82, "Pump_4"),
          InitS(83, "product"),
          SolveS(87),
          ReturnS(89) >>

\* Pump_Curves/pump_curves.py: the script
PumpCurvesProgram ==
    << PackageS(92, "properties", "iapws95"),
       UnitS(95, "unit", "PressureChangerCurve", "properties"),
       FixS(104, "unit", "inlet", "flow_mol"),
       FixS(108, "unit", "inlet", "enth_mol"),
       FixS(109, "unit", "inlet", "pressure"),
       InitS(119, "unit"),
       SolveS(120),
       ReportS(123),
       ExceptPrintS(130),
       SolveS(132),
       ReportIfOptimalS(133),
       ReportIfOptimalS(159),
       ReturnS(177) >>

\* faulty variant of MixerProgram: the arcs are expanded before s03 is declared
MixerProgramEarlyExpand ==
    << PackageS(48, "properties", "methanol_ethanol"),
       UnitS(49, "methanol_feed", "Feed", "properties"),
       UnitS(50, "ethanol_feed", "Feed", "properties"),
       UnitListS(51, "mixer", "Mixer", "properties",
                 {"Methanol_Inlet", "Ethanol_Inlet"}),
       UnitS(55, "product", "Product", "properties"),
       ArcS(58, "s01", "methanol_feed", "outlet", "mixer", "Methanol_Inlet"),
       ArcS(59, "s02", "ethanol_feed", "outlet", "mixer", "Ethanol_Inlet"),
       ExpandS(61),
       ArcS(60, "s03", "mixer", "outlet", "product", "inlet"),
       DofS(63) >>
    \o FeedFixes(65, "methanol_feed")
    \o FeedFixes(71, "ethanol_feed")
    \o << DofS(77),
          SolveS(80),
          ReturnS(82) >>

\* Mixer/mixer.py: setup_mixer_model
MixerProgram ==
    << PackageS(48, "properties", "methanol_ethanol"),
       UnitS(49, "methanol_feed", "Feed", "properties"),
       UnitS(50, "ethanol_feed", "Feed", "properties"),
       UnitListS(51, "mixer", "Mixer", "properties",
                 {"Methanol_Inlet", "Ethanol_Inlet"}),
       UnitS(55, "product", "Product", "properties"),
       ArcS(58, "s01", "methanol_feed", "outlet", "mixer", "Methanol_Inlet"),
       ArcS(59, "s02", "ethanol_feed", "outlet", "mixer", "Ethanol_Inlet"),
       ArcS(60, "s03", "mixer", "outlet", "product", "inlet"),
       ExpandS(61),
       DofS(63) >>
    \o FeedFixes(65, "methanol_feed")
    \o FeedFixes(71, "ethanol_feed")
    \o << DofS(77),
          SolveS(80),
          ReturnS(82) >>

\* faulty variant of SeparatorProgram: the split fraction is never fixed
SeparatorProgramNoSplit ==
    << PackageS(42, "properties", "methanol_ethanol"),
       UnitS(43, "feed", "Feed", "properties"),
       UnitListS(44, "separator", "Separator", "properties",
                 {"To_Vessel_1", "To_Vessel_2"}),
       UnitS(51, "to_vessel_1", "Product", "properties"),
       UnitS(52, "to_vessel_2", "Product", "properties"),
       ArcS(55, "s01", "feed", "outlet", "separator", "inlet"),
       ArcS(56, "s02", "separator", "To_Vessel_1", "to_vessel_1", "inlet"),
       ArcS(57, "s03", "separator", "To_Vessel_2", "to_vessel_2", "inlet"),
       ExpandS(58),
       DofS(60) >>
    \o FeedFixes(62, "feed")
    \o << DofS(70),
          SolveS(73),
          ReturnS(75) >>

\* Separator/separator.py: setup_separator_model
SeparatorProgram ==
    << PackageS(42, "properties", "methanol_ethanol"),
       UnitS(43, "feed", "Feed", "properties"),
       UnitListS(44, "separator", "Separator", "properties",
                 {"To_Vessel_1", "To_Vessel_2"}),
       UnitS(51, "to_vessel_1", "Product", "properties"),
       UnitS(52, "to_vessel_2", "Product", "properties"),
       ArcS(55, "s01", "feed", "outlet", "separator", "inlet"),
       ArcS(56, "s02", "separator", "To_Vessel_1", "to_vessel_1", "inlet"),
       ArcS(57, "s03", "separator", "To_Vessel_2", "to_vessel_2", "inlet"),
       ExpandS(58),
       DofS(60) >>
    \o FeedFixes(62, "feed")
    \o << FixS(68, "separator", "", "split_fraction_To_Vessel_1"),
          DofS(70),
          SolveS(73),
          ReturnS(75) >>

\* faulty variant of FlashProgram: the flash pressure drop is never fixed
FlashProgramNoDeltaP ==
    << PackageS(39, "properties", "methanol_ethanol"),
       UnitS(40, "feed", "Feed", "properties"),
       UnitS(41, "flash", "Flash", "properties"),
       UnitS(42, "vapor", "Product", "properties"),
       UnitS(43, "liquid", "Product", "properties"),
       ArcS(46, "s01", "feed", "outlet", "flash", "inlet"),
       ArcS(47, "s02", "flash", "vap_outlet", "vapor", "inlet"),
       ArcS(48, "s03", "flash", "liq_outlet", "liquid", "inlet"),
       ExpandS(49),
       DofS(51) >>
    \o FeedFixes(53, "feed")
    \o << FixS(59, "flash", "", "heat_duty"),
          DofS(62),
          SolveS(65),
          ReturnS(67) >>

\* Flash/flash.py: setup_flash_model
FlashProgram ==
    << PackageS(39, "properties", "methanol_ethanol"),
       UnitS(40, "feed", "Feed", "properties"),
       UnitS(41, "flash", "Flash", "properties"),
       UnitS(42, "vapor", "Product", "properties"),
       UnitS(43, "liquid", "Product", "properties"),
       ArcS(46, "s01", "feed", "outlet", "flash", "inlet"),
       ArcS(47, "s02", "flash", "vap_outlet", "vapor", "inlet"),
       ArcS(48, "s03", "flash", "liq_outlet", "liquid", "inlet"),
       ExpandS(49),
       DofS(51) >>
    \o FeedFixes(53, "feed")
    \o << FixS(59, "flash", "", "heat_duty"),
          FixS(60, "flash", "", "deltaP"),
          DofS(62),
          SolveS(65),
          ReturnS(67) >>

\* Compressor/compressor.py: setup_compressor_model
CompressorProgram ==
    << PackageS(38, "properties", "gas"),
       UnitS(39, "feed", "Feed", "properties"),
       UnitS(40, "compressor", "Compressor", "properties"),
       UnitS(41, "product", "Product", "properties"),
       ArcS(44, "s01", "feed", "outlet", "compressor", "inlet"),
       ArcS(45, "s02", "compressor", "outlet", "product", "inlet"),
       ExpandS(46),
       DofS(48),
       FixS(50, "feed", "outlet", "flow_mol"),
       FixS(51, "feed", "outlet", "mole_frac_comp_methane"),
       FixS(52, "feed", "outlet", "pressure"),
       FixS(53, "feed", "outlet", "temperature"),
       FixS(55, "compressor", "", "deltaP"),
       FixS(56, "compressor", "", "efficiency_isentropic"),
       DofS(58),
       SolveS(61),
       ReturnS(63) >>

\* faulty variant of HeatExchangerProgram: the tube side is built on the shell's package
HeatExchangerProgramOnePackage ==
    << PackageS(49, "properties", "methanol_ethanol"),
       PackageS(50, "steam_properties", "iapws95"),
       UnitS(53, "feed", "Feed", "properties"),
       UnitS(54, "product", "Product", "properties"),
       UnitS(55, "cooling_water_in", "Feed", "steam_properties"),
       UnitS(56, "cooling_water_out", "Product", "steam_properties"),
       UnitTwoS(57, "heat_exchanger", "HeatExchanger",
                "properties", "properties"),
       ArcS(66, "s01", "feed", "outlet", "heat_exchanger", "hot_side_inlet"),
       ArcS(67, "s02", "cooling_water_in", "outlet",
            "heat_exchanger", "cold_side_inlet"),
       ArcS(68, "s03", "heat_exchanger", "hot_side_outlet", "product", "inlet"),
       ArcS(69, "s04", "heat_exchanger", "cold_side_outlet",
            "cooling_water_out", "inlet"),
       ExpandS(70),
       DofS(73) >>
    \o FeedFixes(76, "feed")
    \o << FixS(83, "cooling_water_in", "outlet", "flow_mol"),
          FixS(84, "cooling_water_in", "outlet", "pressure"),
          FixS(89, "cooling_water_in", "outlet", "enth_mol"),
          FixS(92, "heat_exchanger", "", "area"),
          FixS(93, "heat_exchanger", "", "overall_heat_transfer_coefficient"),
          DofS(96),
          InitS(99, "feed"),
          InitS(100, "cooling_water_in"),
          InitS(101, "heat_exchanger"),
          InitS(102, "product"),
          InitS(103, "cooling_water_out"),
          SolveS(107),
          ReturnS(109) >>

\* Heat_Exchanger_0D/heatexchanger_0D.py: setup_heatexchanger_model
HeatExchangerProgram ==
    << PackageS(49, "properties", "methanol_ethanol"),
       PackageS(50, "steam_properties", "iapws95"),
       UnitS(53, "feed", "Feed", "properties"),
       UnitS(54, "product", "Product", "properties"),
       UnitS(55, "cooling_water_in", "Feed", "steam_properties"),
       UnitS(56, "cooling_water_out", "Product", "steam_properties"),
       UnitTwoS(57, "heat_exchanger", "HeatExchanger",
                "properties", "steam_properties"),
       ArcS(66, "s01", "feed", "outlet", "heat_exchanger", "hot_side_inlet"),
       ArcS(67, "s02", "cooling_water_in", "outlet",
            "heat_exchanger", "cold_side_inlet"),
       ArcS(68, "s03", "heat_exchanger", "hot_side_outlet", "product", "inlet"),
       ArcS(69, "s04", "heat_exchanger", "cold_side_outlet",
            "cooling_water_out", "inlet"),
       ExpandS(70),
       DofS(73) >>
    \o FeedFixes(76, "feed")
    \o << FixS(83, "cooling_water_in", "outlet", "flow_mol"),
          FixS(84, "cooling_water_in", "outlet", "pressure"),
          FixS(89, "cooling_water_in", "outlet", "enth_mol"),
          FixS(92, "heat_exchanger", "", "area"),
          FixS(93, "heat_exchanger", "", "overall_heat_transfer_coefficient"),
          DofS(96),
          InitS(99, "feed"),
          InitS(100, "cooling_water_in"),
          InitS(101, "heat_exchanger"),
          InitS(102, "product"),
          InitS(103, "cooling_water_out"),
          SolveS(107),
          ReturnS(109) >>

\* faulty variant of SteamProgram: both flash outlets are connected to the
\* inlet of product two, and product three is left unconnected
SteamProgramSharedInlet ==
    << PackageS(36, "properties", "iapws95"),
       UnitS(39, "one", "Feed", "properties"),
       UnitS(40, "Pump_1", "IsentropicPump", "properties"),
       UnitS(45, "Flash_1", "Flash", "properties"),
       UnitS(51, "two", "Product", "properties"),
       UnitS(52, "three", "Product", "properties"),
       DofS(55),
       ArcS(64, "s01", "one", "outlet", "Pump_1", "inlet"),
       ArcS(65, "s02", "Pump_1", "outlet", "Flash_1", "inlet"),
       ArcS(66, "s03", "Flash_1", "vap_outlet", "two", "inlet"),
       ArcS(67, "s04", "Flash_1", "liq_outlet", "two", "inlet"),
       ExpandS(69),
       DofS(72),
       FixS(75, "Pump_1", "inlet", "flow_mol"),
       FixS(78, "Pump_1", "inlet", "enth_mol"),
       FixS(79, "Pump_1", "inlet", "pressure"),
       FixS(82, "Pump_1", "", "deltaP"),
       FixS(83, "Pump_1", "", "efficiency_isentropic"),
       FixS(86, "Flash_1", "", "heat_duty"),
       FixS(87, "Flash_1", "", "deltaP"),
       DofS(90),
       ReturnS(113) >>

\* Diagnostic_Tool_Box/steam_model.py: the script (its initialization and
\* solve are inside a string literal and never run)
SteamProgram ==
    << PackageS(36, "properties", "iapws95"),
       UnitS(39, "one", "Feed", "properties"),
       UnitS(40, "Pump_1", "IsentropicPump", "properties"),
       UnitS(45, "Flash_1", "Flash", "properties"),
       UnitS(51, "two", "Product", "properties"),
       UnitS(52, "three", "Product", "properties"),
       DofS(55),
       ArcS(64, "s01", "one", "outlet", "Pump_1", "inlet"),
       ArcS(65, "s02", "Pump_1", "outlet", "Flash_1", "inlet"),
       ArcS(66, "s03", "Flash_1", "vap_outlet", "two", "inlet"),
       ArcS(67, "s04", "Flash_1", "liq_outlet", "three", "inlet"),
       ExpandS(69),
       DofS(72),
       FixS(75, "Pump_1", "inlet", "flow_mol"),
       FixS(78, "Pump_1", "inlet", "enth_mol"),
       FixS(79, "Pump_1", "inlet", "pressure"),
       FixS(82, "Pump_1", "", "deltaP"),
       FixS(83, "Pump_1", "", "efficiency_isentropic"),
       FixS(86, "Flash_1", "", "heat_duty"),
       FixS(87, "Flash_1", "", "deltaP"),
       DofS(90),
       ReturnS(113) >>

\* faulty variant of TimeTestProgram: the heater is initialized before the
\* pump that feeds it
TimeTestProgramHeaterFirst ==
    << PackageS(33, "properties", "iapws95"),
       UnitS(36, "one", "Feed", "properties"),
       UnitS(37, "two", "Product", "properties"),
       UnitS(38, "Pump_1", "Pump", "properties"),
       UnitS(42, "Heater_1", "Heater", "properties"),
       ArcS(53, "s01", "one", "outlet", "Pump_1", "inlet"),
       ArcS(54, "s02", "Pump_1", "outlet", "Heater_1", "inlet"),
       ArcS(55, "s03", "Heater_1", "outlet", "two", "inlet"),
       ExpandS(56),
       DofS(59),
       FixS(62, "one", "outlet", "flow_mol"),
       FixS(65, "one", "outlet", "enth_mol"),
       FixS(66, "one", "outlet", "pressure"),
       FixS(69, "Pump_1", "", "deltaP"),
       FixS(70, "Pump_1", "", "efficiency_pump"),
       FixS(73, "Heater_1", "", "heat_duty"),
       DofS(76),
       InitS(79, "one"),
       InitS(81, "Heater_1"),
       InitS(80, "Pump_1"),
       InitS(82, "two"),
       SolveS(88),
       ReportS(90),
       ReturnS(91) >>

\* Time_test/time_test.py: the script
TimeTestProgram ==
    << PackageS(33, "properties", "iapws95"),
       UnitS(36, "one", "Feed", "properties"),
       UnitS(37, "two", "Product", "properties"),
       UnitS(38, "Pump_1", "Pump", "properties"),
       UnitS(42, "Heater_1", "Heater", "properties"),
       ArcS(53, "s01", "one", "outlet", "Pump_1", "inlet"),
       ArcS(54, "s02", "Pump_1", "outlet", "Heater_1", "inlet"),
       ArcS(55, "s03", "Heater_1", "outlet", "two", "inlet"),
       ExpandS(56),
       DofS(59),
       FixS(62, "one", "outlet", "flow_mol"),
       FixS(65, "one", "outlet", "enth_mol"),
       FixS(66, "one", "outlet", "pressure"),
       FixS(69, "Pump_1", "", "deltaP"),
       FixS(70, "Pump_1", "", "efficiency_pump"),
       FixS(73, "Heater_1", "", "heat_duty"),
       DofS(76),
       InitS(79, "one"),
       InitS(80, "Pump_1"),
       InitS(81, "Heater_1"),
       InitS(82, "two"),
       SolveS(88),
       ReportS(90),
       ReturnS(91) >>

\* Compound_Creation/compound_properties.py: setup_feed_stream
FeedStreamProgram ==
    << PackageS(36, "properties", "methanol_ethanol"),
       UnitS(37, "feed", "Feed", "properties") >>
    \o FeedFixes(40, "feed")
    \o << SolveS(48),
          ReturnS(50) >>

Builders ==
    {"heater_duty", "heater_temp", "pump", "pump_curves", "mixer",
     "separator", "flash", "compressor", "heat_exchanger", "steam",
     "time_test", "feed_stream"}

Program(b) ==
    CASE b = "heater_duty"    -> HeaterDutyProgram
      [] b = "heater_temp"    -> HeaterTempProgram
      [] b = "pump"           -> PumpProgram
      [] b = "pump_curves"    -> PumpCurvesProgram
      [] b = "mixer"          -> MixerProgram
      [] b = "separator"      -> SeparatorProgram
      [] b = "flash"          -> FlashProgram
      [] b = "compressor"     -> CompressorProgram
      [] b = "heat_exchanger" -> HeatExchangerProgram
      [] b = "steam"          -> SteamProgram
      [] b = "time_test"      -> TimeTestProgram
      [] b = "feed_stream"    -> FeedStreamProgram

\* pump_curves.py lines 118-135: try: <first..last>; except: <handler..>;
\* control resumes at <resume> after either block.  Statement indexes.
TryBlock(b) ==
    IF b = "pump_curves"
    THEN [first |-> 6, last |-> 8, handler |-> 9, resume |-> 12]
    ELSE [first |-> 0, last |-> 0, handler |-> 0, resume |-> 0]

InTry(b, i) == TryBlock(b).first > 0 /\ TryBlock(b).first <= i /\ i <= TryBlock(b).last

\* the statement that runs after statement i completes normally
NextPc(b, i) == IF TryBlock(b).first > 0 /\ i = TryBlock(b).last THEN TryBlock(b).resume ELSE i + 1

(***************************************************************************)
(* Values and reports.  Flows are in mol/s, pressures in Pa, temperatures  *)
(* in K, split fractions and efficiencies in thousandths.                  *)
(***************************************************************************)

\* a mole fraction: thousandths, plus a remainder in units of 1e-15
MoleFrac(milli, femto) == [milli |-> milli, femto |-> femto]

\* the feed arguments of a setup_* function over methanol/ethanol: the
\* defaults of its def line when it is called with no argument; a caller
\* that passes every argument passes another flow here
FeedArguments(a) ==
    [flow_mol           |-> IF a = "none" THEN 100 ELSE 50,
     mole_frac_methanol |-> MoleFrac(600, 0),
     mole_frac_ethanol  |-> MoleFrac(400, 0),
     pressure           |-> 101325,
     temperature        |-> 298]

\* the arguments of setup_separator_model
SeparatorArguments(a) == FeedArguments(a)

\* the values of five consecutive feed fixes (see FeedFixes) from a stream
FeedValues(line, stream) ==
    (line :> stream.flow_mol)
        @@ (line + 1 :> stream.mole_frac_methanol)
        @@ (line + 2 :> stream.mole_frac_ethanol)
        @@ (line + 3 :> stream.pressure)
        @@ (line + 4 :> stream.temperature)

\* faulty variant of MixerArguments: the ethanol stream defaults to half
\* the flow
MixerArgumentsHalfEthanol(a) ==
    [methanol_stream |->
        [flow_mol           |-> IF a = "none" THEN 100 ELSE 50,
         mole_frac_methanol |-> MoleFrac(1000, 0),
         mole_frac_ethanol  |-> MoleFrac(0, 1),
         pressure           |-> IF a = "all" THEN 202650 ELSE 101325,
         temperature        |-> 298],
     ethanol_stream |->
        [flow_mol           |-> 50,
         mole_frac_methanol |-> MoleFrac(0, 1),
         mole_frac_ethanol  |-> MoleFrac(1000, 0),
         pressure           |-> IF a = "all_other" THEN 202650 ELSE 101325,
         temperature        |-> 298]]

\* the two stream dictionaries of setup_mixer_model (mole fractions 1.0 and
\* 1e-15); a caller that passes every argument passes another flow and a
\* higher pressure for the methanol stream ("all") or a higher pressure for
\* the ethanol stream ("all_other")
MixerArguments(a) ==
    [methanol_stream |->
        [flow_mol           |-> IF a = "none" THEN 100 ELSE 50,
         mole_frac_methanol |-> MoleFrac(1000, 0),
         mole_frac_ethanol  |-> MoleFrac(0, 1),
         pressure           |-> IF a = "all" THEN 202650 ELSE 101325,
         temperature        |-> 298],
     ethanol_stream |->
        [flow_mol           |-> 100,
         mole_frac_methanol |-> MoleFrac(0, 1),
         mole_frac_ethanol  |-> MoleFrac(1000, 0),
         pressure           |-> IF a = "all_other" THEN 202650 ELSE 101325,
         temperature        |-> 298]]

\* the arguments of setup_pump_methanol_ethanol_model beyond the feed
\* (efficiencies in thousandths)
PumpArguments(a) ==
    [pressure_increase   |-> 101325,
     efficiency_pump_one |-> 750,
     outlet_pressure     |-> 202650,
     efficiency_pump_two |-> 750]

\* the arguments of setup_compressor_model
CompressorArguments(a) ==
    [flow_mol          |-> IF a = "none" THEN 100 ELSE 50,
     mole_frac_methane |-> MoleFrac(1000, 0),
     pressure          |-> 101325,
     temperature       |-> 298]

\* faulty variant of SeparatorValues: the split fraction is fixed at 0.3
SeparatorValuesOtherSplit(a) ==
    FeedValues(62, SeparatorArguments(a)) @@ (68 :> 300)

\* separator.py lines 62-68
SeparatorValues(a) ==
    FeedValues(62, SeparatorArguments(a)) @@ (68 :> 200)

\* faulty variant of HeaterTempValues: the outlet temperature is fixed at
\* 530 K
HeaterTempValuesHot(a) ==
    FeedValues(96, FeedArguments(a)) @@ (102 :> 530)

\* heater_cooler.py lines 96-102
HeaterTempValues(a) ==
    FeedValues(96, FeedArguments(a)) @@ (102 :> 350)

\* the value each fix statement of a setup_* function gives its variable, by
\* source line (heat duties in W, efficiencies in thousandths); the scripts
\* and the heat exchanger fix enthalpies computed by the property library
\* and are left out
FixValues(b, a) ==
    CASE b = "heater_duty" -> FeedValues(51, FeedArguments(a)) @@ (57 :> 2500000)
      [] b = "heater_temp" -> HeaterTempValues(a)
      [] b = "pump"
            -> FeedValues(65, FeedArguments(a))
                   @@ (71 :> PumpArguments(a).pressure_increase)
                   @@ (72 :> PumpArguments(a).efficiency_pump_one)
                   @@ (73 :> PumpArguments(a).outlet_pressure)
                   @@ (74 :> PumpArguments(a).efficiency_pump_two)
      [] b = "mixer"
            -> FeedValues(65, MixerArguments(a).methanol_stream)
                   @@ FeedValues(71, MixerArguments(a).ethanol_stream)
      [] b = "separator" -> SeparatorValues(a)
      [] b = "flash"
            -> FeedValues(53, FeedArguments(a)) @@ (59 :> 2500000) @@ (60 :> 0)
      [] b = "compressor"
            -> (50 :> CompressorArguments(a).flow_mol)
                   @@ (51 :> CompressorArguments(a).mole_frac_methane)
                   @@ (52 :> CompressorArguments(a).pressure)
                   @@ (53 :> CompressorArguments(a).temperature)
                   @@ (55 :> 250000)
                   @@ (56 :> 850)
      [] b = "feed_stream" -> FeedValues(40, FeedArguments(a))
      [] OTHER -> <<>>

\* one slot of the tuple a report_* function returns: the name the source
\* gives the slot and the unit whose report() fills it
Slot(slot, unit) == [slot |-> slot, unit |-> unit]

\* the report_* function that goes with a builder, slot by slot in the order
\* of its return statement
ReportFunction(b) ==
    CASE b \in {"heater_duty", "heater_temp"}
            -> << Slot("feed_prop", "feed"), Slot("heater_prop", "heater"),
                  Slot("product_prop", "product") >>
      [] b = "pump"
            -> << Slot("feed_prop", "methanol_ethanol_mix"),
                  Slot("pump_one_prop", "Pump_3"),
                  Slot("pump_two_prop", "Pump_4"),
                  Slot("product_prop", "product") >>
      [] b = "mixer"
            -> << Slot("methanol_feed_prop", "methanol_feed"),
                  Slot("ethanol_feed_prop", "ethanol_feed"),
                  Slot("mixer_prop", "mixer"),
                  Slot("product_prop", "product") >>
      [] b = "separator"
            -> << Slot("feed_prop", "feed"),
                  Slot("seprator_prop", "separator"),
                  Slot("to_vessel_1", "to_vessel_1"),
                  Slot("to_vessel_2", "to_vessel_1") >>
      [] b = "flash"
            -> << Slot("feed_prop", "feed"), Slot("flash_prop", "flash"),
                  Slot("vapor_prop", "vapor"), Slot("liquid_prop", "liquid") >>
      [] b = "compressor"
            -> << Slot("feed_prop", "feed"),
                  Slot("compressor_prop", "compressor"),
                  Slot("product_prop", "product") >>
      [] b = "feed_stream" -> << Slot("feed_prop", "feed") >>
      [] OTHER -> <<>>

(***************************************************************************)
(* Unit models: ports, unit-level variables and constraint counts.         *)
(***************************************************************************)

\* the record kept for a declared unit
UnitOf(st) ==
    [name |-> st.name, kind |-> st.kind, pkg |-> st.pkg, pkg2 |-> st.pkg2,
     list |-> st.list]

\* the record kept for a declared arc
ArcOf(st) == [name |-> st.name, src |-> st.src, dst |-> st.dst]

Port(name, pkg, dir) == [port |-> name, pkg |-> pkg, dir |-> dir]

\* HeatExchanger(hot_side_name="shell", cold_side_name="tube", shell={pkg},
\* tube={pkg2}): the hot side is the shell, the cold side the tube
HeatExchangerPorts(u) ==
    {Port("hot_side_inlet", u.pkg, "in"),
     Port("hot_side_outlet", u.pkg, "out"),
     Port("cold_side_inlet", u.pkg2, "in"),
     Port("cold_side_outlet", u.pkg2, "out")}

\* the ports of a unit: name, property package of its state block, direction
Ports(u) ==
    CASE u.kind = "Feed"    -> {Port("outlet", u.pkg, "out")}
      [] u.kind = "Product" -> {Port("inlet", u.pkg, "in")}
      [] u.kind \in {"Heater", "Pump", "IsentropicPump", "Compressor",
                     "PressureChangerCurve"}
            -> {Port("inlet", u.pkg, "in"), Port("outlet", u.pkg, "out")}
      [] u.kind = "Flash"
            -> {Port("inlet", u.pkg, "in"), Port("vap_outlet", u.pkg, "out"),
                Port("liq_outlet", u.pkg, "out")}
      [] u.kind = "Mixer"
            -> {Port(l, u.pkg, "in") : l \in u.list}
                   \cup {Port("outlet", u.pkg, "out")}
      [] u.kind = "Separator"
            -> {Port("inlet", u.pkg, "in")}
                   \cup {Port(l, u.pkg, "out") : l \in u.list}
      [] u.kind = "HeatExchanger" -> HeatExchangerPorts(u)
      [] OTHER -> {}

\* the variables the performance-curve callback adds to its block
CurveVars == {"performance_curve.flow_mol", "performance_curve.head_interp",
              "performance_curve.eff_interp"}

\* the constraints the performance-curve callback adds to its block
CurveConstraints == {"flow_link", "head_interp_eqn", "eff_interp_eqn",
                     "pump_efficiency_eqn", "pump_head_eqn"}

\* faulty variant of momentum_mixing_type: the mixer is declared without a
\* momentum-mixing policy
momentum_mixing_type_none(u) ==
    IF u.kind = "Mixer" THEN "none" ELSE ""

\* Mixer(..., momentum_mixing_type=MomentumMixingType.minimize)
momentum_mixing_type(u) ==
    IF u.kind = "Mixer" THEN "minimize" ELSE ""

\* unit-level (auxiliary) variables of a unit
AuxVars(u) ==
    CASE u.kind = "Heater"         -> {"heat_duty"}
      [] u.kind = "Pump"           -> {"deltaP", "efficiency_pump"}
      [] u.kind = "IsentropicPump" -> {"deltaP", "efficiency_isentropic"}
      [] u.kind = "Compressor"     -> {"deltaP", "efficiency_isentropic"}
      [] u.kind = "PressureChangerCurve"
            -> {"deltaP", "efficiency_isentropic"} \cup CurveVars
      [] u.kind = "Flash"          -> {"heat_duty", "deltaP"}
      [] u.kind = "Separator"      -> {"split_fraction_" \o l : l \in u.list}
      [] u.kind = "HeatExchanger"
            -> {"area", "overall_heat_transfer_coefficient", "heat_duty",
                "delta_temperature"}
      [] OTHER -> {}

\* configuration behind a package name on the flowsheet
ConfigOf(pkgs, name) ==
    IF \E p \in pkgs : p.name = name
    THEN (CHOOSE p \in pkgs : p.name = name).config
    ELSE ""

\* all variables of a unit, as <<unit, port, variable>>
UnitVars(pkgs, u) ==
    UNION {{<<u.name, p.port, v>> : v \in StateVars(ConfigOf(pkgs, p.pkg))} :
              p \in Ports(u)}
        \cup {<<u.name, "", a>> : a \in AuxVars(u)}

PortVarCount(pkgs, u, dir) ==
    Cardinality(UNION {{<<p.port, v>> : v \in StateVars(ConfigOf(pkgs, p.pkg))} :
                          p \in {q \in Ports(u) : q.dir = dir}})

\* equality constraints inside a unit: the balances fix every outlet state
\* variable (a mixer without a momentum-mixing policy leaves its outlet
\* pressure free); a separator's split fractions sum to 1; a heat exchanger adds
\* the duty and temperature-difference relations; the curve callback adds
\* its five constraints
UnitConstraintCount(pkgs, u) ==
    CASE u.kind \in {"Feed", "Product"} -> 0
      [] u.kind = "Separator"     -> PortVarCount(pkgs, u, "out") + 1
      [] u.kind = "HeatExchanger" -> PortVarCount(pkgs, u, "out") + 2
      [] u.kind = "PressureChangerCurve"
            -> PortVarCount(pkgs, u, "out") + Cardinality(CurveConstraints)
      [] u.kind = "Mixer"
            -> PortVarCount(pkgs, u, "out")
                   - (IF momentum_mixing_type(u) = "none" THEN 1 ELSE 0)
      [] OTHER                    -> PortVarCount(pkgs, u, "out")

(***************************************************************************)
(* Arc expansion and degrees of freedom.                                   *)
(***************************************************************************)

\* property package (by name) of a port <<unit, port>> of the flowsheet
PortPackage(us, up) ==
    IF \E u \in us : u.name = up[1] /\ \E p \in Ports(u) : p.port = up[2]
    THEN LET u == CHOOSE x \in us : x.name = up[1]
         IN  (CHOOSE p \in Ports(u) : p.port = up[2]).pkg
    ELSE ""

\* the equality constraints of one arc: one per variable of the source port
ArcConstraints(pkgs, us, a) ==
    {[arc |-> a.name, src |-> <<a.src[1], a.src[2], v>>,
      dst |-> <<a.dst[1], a.dst[2], v>>] :
        v \in StateVars(ConfigOf(pkgs, PortPackage(us, a.src)))}

\* faulty variant of ExpandArcs: a constraint is named after the position of its arc
\* in the declaration order, not after the arc
ExpandArcsPositional(pkgs, us, as) ==
    UNION {{[arc |-> ToString(i), src |-> c.src, dst |-> c.dst] :
               c \in ArcConstraints(pkgs, us, as[i])} : i \in 1..Len(as)}

RECURSIVE ExpandArcs(_, _, _)
\* network.expand_arcs over the arcs of the model, in declaration order
ExpandArcs(pkgs, us, as) ==
    IF as = <<>> THEN {}
    ELSE ExpandArcs(pkgs, us, SubSeq(as, 1, Len(as) - 1))
             \cup ArcConstraints(pkgs, us, as[Len(as)])

RECURSIVE SumConstraints(_, _)
SumConstraints(pkgs, us) ==
    IF us = {} THEN 0
    ELSE LET u == CHOOSE x \in us : TRUE
         IN  UnitConstraintCount(pkgs, u) + SumConstraints(pkgs, us \ {u})

\* variables that appear in at least one active equality constraint
ReferencedVars(pkgs, us, cons) ==
    UNION {IF UnitConstraintCount(pkgs, u) > 0
           THEN UnitVars(pkgs, u)
           ELSE {v \in UnitVars(pkgs, u) :
                    \E p \in Ports(u) : p.port = v[2]
                        /\ HasPropertyConstraints(ConfigOf(pkgs, p.pkg))}
           : u \in us}
        \cup {c.src : c \in cons} \cup {c.dst : c \in cons}

\* degrees_of_freedom(m): free variables in active equality constraints
\* minus active equality constraints
DegreesOfFreedom(pkgs, us, cons, fx) ==
    Cardinality(ReferencedVars(pkgs, us, cons) \ fx)
        - (SumConstraints(pkgs, us) + Cardinality(cons))

DOF == DegreesOfFreedom(packages, units, constraints, fixed)

(***************************************************************************)
(* The performance curve of Pump_Curves/pump_curves.py.  Flows are in      *)
(* thousandths of m3/h and hundredths of mol/s, heads in thousandths of m  *)
(* and hundredths of J/kg, efficiencies in thousandths; a quotient is      *)
(* rounded down to the unit.                                               *)
(***************************************************************************)

\* faulty variant of flow_data_m3h: a breakpoint entered twice
flow_data_m3h_repeated ==
    <<0, 725, 1451, 2176, 2176, 3265, 3627, 3990, 4353, 4716>>

flow_data_m3h == <<0, 725, 1451, 2176, 2902, 3265, 3627, 3990, 4353, 4716>>

head_data_m ==
    <<271162, 268903, 266643, 259864, 248565, 237267, 225969, 214670, 198852,
      180775>>

eff_data == <<0, 300, 488, 638, 713, 735, 750, 735, 713, 675>>

\* 996.557 kg/m3, in g/m3
water_density == 996557

\* 0.01801528 kg/mol, in mg/mol
water_mw == 18015

\* 9.81 m/s2, in cm/s2
g == 981

\* flow_data_m3h * (water_density / water_mw) / 3600
flow_data_mol_s ==
    [i \in 1..Len(flow_data_m3h) |->
        (flow_data_m3h[i] * ((water_density * 1000) \div water_mw)) \div 36000]

\* head_data_m * g
head_data_J_kg ==
    [i \in 1..Len(head_data_m) |-> (head_data_m[i] * g) \div 1000]

\* Param(range(len(data)), initialize=dict(enumerate(data))): keys 0..len-1
ParamOf(data) == [i \in 0..(Len(data) - 1) |-> data[i + 1]]

flow_points == ParamOf(flow_data_mol_s)

head_points == ParamOf(head_data_J_kg)

eff_points == ParamOf(eff_data)

\* blk.flow_mol = Var(initialize=44.56, ...)
flow_mol_initial == 4456

\* m.fs.unit.inlet.flow_mol[0].fix(44.5612)
inlet_flow_mol == 4456

\* what a constraint rule returns: <variable> == base + (rise / run) *
\* (flow_mol - from), or the exception it raises
NoRule == [kind |-> "none", base |-> 0, rise |-> 0, run |-> 1, from |-> 0]

Equals(value) == [NoRule EXCEPT !.kind = "const", !.base = value]

Raises(exception) == [NoRule EXCEPT !.kind = exception]

Exceptions == {"KeyError", "ZeroDivisionError"}

\* <variable> == points[i]: a Param has the keys of its index set only
PointRule(points, i) ==
    IF i \in DOMAIN points THEN Equals(points[i]) ELSE Raises("KeyError")

\* faulty variant of SegmentRule: the line is anchored at the head of the
\* segment's upper breakpoint
SegmentRuleUpperAnchor(points, i) ==
    IF flow_points[i + 1] = flow_points[i]
    THEN Raises("ZeroDivisionError")
    ELSE [kind |-> "line",
          base |-> points[i + 1],
          rise |-> points[i + 1] - points[i],
          run  |-> flow_points[i + 1] - flow_points[i],
          from |-> flow_points[i]]

\* slope = (points[i+1] - points[i]) / (flow_points[i+1] - flow_points[i]);
\* <variable> == points[i] + slope * (b.flow_mol - b.flow_points[i])
SegmentRule(points, i) ==
    IF flow_points[i + 1] = flow_points[i]
    THEN Raises("ZeroDivisionError")
    ELSE [kind |-> "line",
          base |-> points[i],
          rise |-> points[i + 1] - points[i],
          run  |-> flow_points[i + 1] - flow_points[i],
          from |-> flow_points[i]]

\* range(len(flow_data_mol_s) - 1)
Segments == 0..(Len(flow_data_mol_s) - 2)

\* the segments whose closed interval contains the flow
Bracketing(flow) ==
    {i \in Segments : flow >= flow_points[i] /\ flow <= flow_points[i + 1]}

\* the loop returns at the first segment that passes the test
FirstOf(S) == CHOOSE i \in S : \A j \in S : i <= j

\* faulty variant of head_interp_eqn: below the range the head of the second
\* breakpoint is taken
head_interp_eqn_second(flow) ==
    IF Bracketing(flow) # {}
    THEN SegmentRule(head_points, FirstOf(Bracketing(flow)))
    ELSE IF flow < flow_points[0]
         THEN PointRule(head_points, 1)
         ELSE PointRule(head_points, -1)

\* the rule of blk.head_interp_eqn, run with value(b.flow_mol) = flow
head_interp_eqn(flow) ==
    IF Bracketing(flow) # {}
    THEN SegmentRule(head_points, FirstOf(Bracketing(flow)))
    ELSE IF flow < flow_points[0]
         THEN PointRule(head_points, 0)
         ELSE PointRule(head_points, -1)

\* the rule of blk.eff_interp_eqn, run with value(b.flow_mol) = flow
eff_interp_eqn(flow) ==
    IF Bracketing(flow) # {}
    THEN SegmentRule(eff_points, FirstOf(Bracketing(flow)))
    ELSE IF flow < flow_points[0]
         THEN Equals(0)
         ELSE PointRule(eff_points, -1)

\* the value a rule imposes on its variable when flow_mol has value x
Imposed(rule, x) == rule.base + (rule.rise * (x - rule.from)) \div rule.run

\* Var bounds: flow_mol (0, 100), head_interp (0, 3000), eff_interp (0, 0.75)
WithinBounds(flow, head, eff) ==
    /\ 0 <= flow /\ flow <= 10000
    /\ 0 <= head /\ head <= 300000
    /\ 0 <= eff  /\ eff <= 750

\* no performance-curve block under construction
CurveIdle ==
    [stage |-> "idle", built_at |-> 0, inlet |-> 0, flow_mol |-> 0,
     head |-> NoRule, eff |-> NoRule, head_interp |-> 0, eff_interp |-> 0,
     bounded |-> TRUE, error |-> "none"]

\* pump_perf_callback has created the Params and the Vars: flow_mol holds
\* the value it was initialized with, the inlet flow is the one to be fixed
CurveStart(flow, inlet) ==
    [CurveIdle EXCEPT !.stage = "start", !.built_at = flow, !.inlet = inlet,
                      !.flow_mol = flow, !.head_interp = 250000,
                      !.eff_interp = 700]

(***************************************************************************)
(* The interpreter: one action per kind of statement.                      *)
(***************************************************************************)

NoFailure == [kind |-> "none", unit |-> "", at |-> 0]

\* nothing returned (yet)
NoValue == [model |-> "", result |-> ""]

\* the Arc statements of a builder, in source order
ArcStmts(b) == SelectSeq(Program(b), LAMBDA st : st.op = "arc")

\* the unit declarations of a builder
UnitStmts(b) == SelectSeq(Program(b), LAMBDA st : st.op = "unit")

Identity(n) == [i \in 1..n |-> i]

ArcOrders(n) ==
    {f \in [1..n -> 1..n] : \A i, j \in 1..n : f[i] = f[j] => i = j}

Running == status = "running" /\ pc <= Len(Program(builder))

Cur == Program(builder)[pc]

\* an exception raised by the current statement: inside a try block control
\* goes to the handler, anywhere else it leaves the builder
Raise(kind, unit) ==
    /\ failure' = [kind |-> kind, unit |-> unit, at |-> pc]
    /\ IF InTry(builder, pc)
       THEN pc' = TryBlock(builder).handler /\ status' = status
       ELSE pc' = pc /\ status' = "failed"

Advance == pc' = NextPc(builder, pc) /\ status' = status

\* the builders that are scripts: run top to bottom, never called
Scripts == {"pump_curves", "steam", "time_test"}

\* the builders that are setup_* functions
SetupFunctions == Builders \ Scripts

FeedParameters ==
    {"flow_mol", "mole_frac_methanol", "mole_frac_ethanol", "pressure",
     "temperature"}

\* the parameters in the def line of a setup_* function
Parameters(b) ==
    CASE b \in {"heater_duty", "heater_temp", "separator", "flash", "feed_stream"}
            -> FeedParameters
      [] b = "pump"
            -> FeedParameters \cup {"pressure_increase", "efficiency_pump_one",
                                    "outlet_pressure", "efficiency_pump_two"}
      [] b = "compressor"
            -> {"flow_mol", "mole_frac_methane", "pressure", "temperature"}
      [] b = "mixer"          -> {"methanol_stream", "ethanol_stream"}
      [] b = "heat_exchanger" -> {"feed_stream", "water_stream", "hx_area", "hx_u"}
      [] OTHER                -> {}

\* the parameters written with a default value (name=value) in the def line
Defaulted(b) ==
    IF b = "heat_exchanger" THEN {"hx_area", "hx_u"} ELSE Parameters(b)

\* the ways a builder can be started: a function is called with no argument
\* or with every argument; a script is run
CallForms(b) ==
    IF b \in Scripts THEN {"none"}
    ELSE IF b = "mixer" THEN {"none", "all", "all_other"}
    ELSE {"none", "all"}

\* the configuration modules a builder's module imports
Imported(b) ==
    {Program(b)[i].kind : i \in {j \in 1..Len(Program(b)) :
                                     Program(b)[j].op = "package"}}
        \cap ConfigModules

\* from methanol_ethanol import configuration / from gas import configuration:
\* a module not imported yet is run, which evaluates its dictionary display
\* and binds the name; an exception leaves the name unbound and ends the
\* import of the builder's module too
Import ==
    /\ status = "loading"
    /\ LET new    == {m \in Imported(builder) : ~configuration[m].loaded}
           raised == UNION {RaisedBy(m) : m \in new}
       IN  IF raised # {}
           THEN /\ status' = "failed"
                /\ failure' = [kind |-> CHOOSE e \in raised : TRUE,
                               unit |-> "", at |-> 0]
                /\ UNCHANGED configuration
           ELSE /\ status' = "called"
                /\ configuration' =
                      [m \in ConfigModules |->
                          IF m \in new THEN Bound(ConfigurationDisplay(m))
                          ELSE configuration[m]]
                /\ UNCHANGED failure
    /\ UNCHANGED <<built, calls>>
    /\ UNCHANGED <<args, origin, initLog, values, retval, reports, curve>>
    /\ UNCHANGED <<builder, perm, pc, packages, units, arcs, expansions,
                   constraints, fixed, dofLog, initialized, solveLog, termination,
                   reported>>

\* calling the builder: Python binds the arguments to the parameters and
\* raises TypeError when a parameter without a default gets no argument
Call ==
    /\ status = "called"
    /\ IF args = "none" /\ Parameters(builder) \ Defaulted(builder) # {}
       THEN /\ status' = "failed"
            /\ failure' = [kind |-> "TypeError", unit |-> "", at |-> 0]
       ELSE /\ status' = "running"
            /\ UNCHANGED failure
    /\ UNCHANGED moduleVars
    /\ UNCHANGED <<args, origin, initLog, values, retval, reports, curve>>
    /\ UNCHANGED <<builder, perm, pc, packages, units, arcs, expansions,
                   constraints, fixed, dofLog, initialized, solveLog, termination,
                   reported>>

\* the state variables of a package built from a configuration mapping
SchemaOf(mapping) == StateVarsFTPx(DOMAIN mapping.components)

\* faulty variant of DeclarePackage: building the package pops a component
\* from the shared mapping
DeclarePackagePopping ==
    /\ Running /\ Cur.op = "package"
    /\ packages' = packages \cup {[name |-> Cur.name, config |-> Cur.kind]}
    /\ built' = IF Cur.kind \in ConfigModules
                THEN Append(built,
                            [call |-> calls, config |-> Cur.kind,
                             schema |-> SchemaOf(configuration[Cur.kind].mapping)])
                ELSE built
    /\ configuration' =
          IF Cur.kind \in ConfigModules
          THEN [configuration EXCEPT ![Cur.kind].mapping.components =
                   [c \in DOMAIN @ \ {CHOOSE x \in DOMAIN @ : TRUE} |-> @[c]]]
          ELSE configuration
    /\ Advance
    /\ UNCHANGED calls
    /\ UNCHANGED <<args, origin, initLog, values, retval, reports, curve>>
    /\ UNCHANGED <<builder, perm, units, arcs, expansions, constraints, fixed,
                   dofLog, initialized, solveLog, termination, reported, failure>>

\* m.fs.properties = GenericParameterBlock(**configuration): the mapping is
\* unpacked into keyword arguments and read; nothing is assigned to it
DeclarePackage ==
    /\ Running /\ Cur.op = "package"
    /\ packages' = packages \cup {[name |-> Cur.name, config |-> Cur.kind]}
    /\ built' = IF Cur.kind \in ConfigModules
                THEN Append(built,
                            [call |-> calls, config |-> Cur.kind,
                             schema |-> SchemaOf(configuration[Cur.kind].mapping)])
                ELSE built
    /\ Advance
    /\ UNCHANGED <<configuration, calls>>
    /\ UNCHANGED <<args, origin, initLog, values, retval, reports, curve>>
    /\ UNCHANGED <<builder, perm, units, arcs, expansions, constraints, fixed,
                   dofLog, initialized, solveLog, termination, reported, failure>>

\* m.fs.feed = Feed(property_package=m.fs.properties)
DeclareUnit ==
    /\ Running /\ Cur.op = "unit"
    /\ units' = units \cup {UnitOf(Cur)}
    /\ origin' = [v \in UnitVars(packages, UnitOf(Cur)) |-> "default"] @@ origin
    /\ Advance
    /\ UNCHANGED moduleVars
    /\ UNCHANGED <<args, initLog, values, retval, reports, curve>>
    /\ UNCHANGED <<builder, perm, packages, arcs, expansions, constraints, fixed,
                   dofLog, initialized, solveLog, termination, reported, failure>>

\* m.fs.s01 = Arc(source=..., destination=...); the k-th Arc statement
\* reached declares the perm[k]-th arc of the source
DeclareArc ==
    /\ Running /\ Cur.op = "arc"
    /\ arcs' = Append(arcs, ArcOf(ArcStmts(builder)[perm[Len(arcs) + 1]]))
    /\ Advance
    /\ UNCHANGED moduleVars
    /\ UNCHANGED <<args, origin, initLog, values, retval, reports, curve>>
    /\ UNCHANGED <<builder, perm, packages, units, expansions, constraints, fixed,
                   dofLog, initialized, solveLog, termination, reported, failure>>

\* TransformationFactory("network.expand_arcs").apply_to(m)
ApplyExpandArcs ==
    /\ Running /\ Cur.op = "expand"
    /\ constraints' = constraints \cup ExpandArcs(packages, units, arcs)
    /\ expansions' = expansions + 1
    /\ Advance
    /\ UNCHANGED moduleVars
    /\ UNCHANGED <<args, origin, initLog, values, retval, reports, curve>>
    /\ UNCHANGED <<builder, perm, packages, units, arcs, fixed, dofLog,
                   initialized, solveLog, termination, reported, failure>>

\* print(degrees_of_freedom(m))
AnalyzeDOF ==
    /\ Running /\ Cur.op = "dof"
    /\ dofLog' = Append(dofLog, [at |-> pc, dof |-> DOF, expansions |-> expansions,
                                 arcs |-> Len(arcs)])
    /\ Advance
    /\ UNCHANGED moduleVars
    /\ UNCHANGED <<args, origin, initLog, values, retval, reports, curve>>
    /\ UNCHANGED <<builder, perm, packages, units, arcs, expansions, constraints,
                   fixed, initialized, solveLog, termination, reported, failure>>

\* <variable>.fix(value)
FixVar ==
    /\ Running /\ Cur.op = "fix"
    /\ fixed' = fixed \cup {Cur.var}
    /\ origin' = (Cur.var :> "fixed") @@ origin
    /\ values' = IF Cur.line \in DOMAIN FixValues(builder, args)
                 THEN (Cur.var :> FixValues(builder, args)[Cur.line]) @@ values
                 ELSE values
    /\ Advance
    /\ UNCHANGED moduleVars
    /\ UNCHANGED <<args, initLog, retval, reports, curve>>
    /\ UNCHANGED <<builder, perm, packages, units, arcs, expansions, constraints,
                   dofLog, initialized, solveLog, termination, reported, failure>>

\* TRUE for a variable on an inlet port of its unit
IsInletVar(v) ==
    \E u \in units : u.name = v[1]
        /\ \E p \in Ports(u) : p.port = v[2] /\ p.dir = "in"

\* what unit.initialize() computes: the variables of the unit that are not
\* fixed, given the values its inlet ports hold when it is called
SolvedBy(name) ==
    {v \in DOMAIN origin : v[1] = name /\ v \notin fixed /\ ~IsInletVar(v)}

\* the inlet ports of a unit that an arc joins to a unit initialized before
FedInlets(name) ==
    {arcs[k].dst : k \in {i \in 1..Len(arcs) :
        /\ arcs[i].dst[1] = name
        /\ \E j \in 1..Len(initialized) : initialized[j] = arcs[i].src[1]}}

\* one initialize() call: the unit, the inlets fed by initialized units, and
\* where the values those inlets hold at the call come from
InitRecord(name) ==
    [unit  |-> name,
     fed   |-> FedInlets(name),
     guess |-> {origin[v] : v \in {w \in DOMAIN origin :
                                      <<w[1], w[2]>> \in FedInlets(name)}}]

\* faulty variant of InitializeUnit: a failed initialization is recorded and the
\* builder carries on with the next statement
InitializeUnitCarryOn ==
    /\ Running /\ Cur.op = "init"
    /\ \E ok \in BOOLEAN :
          IF ok
          THEN /\ initialized' = Append(initialized, Cur.name)
               /\ origin' = [v \in SolvedBy(Cur.name) |-> "solved"] @@ origin
               /\ initLog' = Append(initLog, InitRecord(Cur.name))
               /\ UNCHANGED failure
          ELSE /\ failure' = [kind |-> "InitializationError", unit |-> Cur.name,
                              at |-> pc]
               /\ UNCHANGED <<initialized, origin, initLog>>
    /\ Advance
    /\ UNCHANGED moduleVars
    /\ UNCHANGED <<args, values, retval, reports, curve>>
    /\ UNCHANGED <<builder, perm, packages, units, arcs, expansions, constraints,
                   fixed, dofLog, solveLog, termination, reported>>

\* m.fs.<unit>.initialize(): returns, or raises InitializationError naming
\* the unit
InitializeUnit ==
    /\ Running /\ Cur.op = "init"
    /\ \E ok \in BOOLEAN :
          IF ok
          THEN /\ initialized' = Append(initialized, Cur.name)
               /\ origin' = [v \in SolvedBy(Cur.name) |-> "solved"] @@ origin
               /\ initLog' = Append(initLog, InitRecord(Cur.name))
               /\ Advance
               /\ UNCHANGED failure
          ELSE /\ Raise("InitializationError", Cur.name)
               /\ UNCHANGED <<initialized, origin, initLog>>
    /\ UNCHANGED moduleVars
    /\ UNCHANGED <<args, values, retval, reports, curve>>
    /\ UNCHANGED <<builder, perm, packages, units, arcs, expansions, constraints,
                   fixed, dofLog, solveLog, termination, reported>>

Terminations == {"optimal", "infeasible", "maxIterations"}

\* result = solver.solve(m): returns a result with a termination condition,
\* or raises
Solve ==
    /\ Running /\ Cur.op = "solve"
    /\ solveLog' = Append(solveLog, [at |-> pc, dof |-> DOF])
    /\ \E out \in Terminations \cup {"raise"} :
          IF out = "raise"
          THEN /\ Raise("SolverError", "")
               /\ UNCHANGED termination
          ELSE /\ termination' = out
               /\ Advance
               /\ UNCHANGED failure
    /\ UNCHANGED moduleVars
    /\ UNCHANGED <<args, origin, initLog, values, retval, reports, curve>>
    /\ UNCHANGED <<builder, perm, packages, units, arcs, expansions, constraints,
                   fixed, dofLog, initialized, reported>>

\* print(value(...)), print(unit.report()): values shown as the solve's result
Report ==
    /\ Running /\ Cur.op = "report"
    /\ reported' = TRUE
    /\ Advance
    /\ UNCHANGED moduleVars
    /\ UNCHANGED <<args, origin, initLog, values, retval, reports, curve>>
    /\ UNCHANGED <<builder, perm, packages, units, arcs, expansions, constraints,
                   fixed, dofLog, initialized, solveLog, termination, failure>>

\* if results.solver.termination_condition == 'optimal': print(value(...))
ReportIfOptimal ==
    /\ Running /\ Cur.op = "report_if_optimal"
    /\ reported' = (reported \/ termination = "optimal")
    /\ Advance
    /\ UNCHANGED moduleVars
    /\ UNCHANGED <<args, origin, initLog, values, retval, reports, curve>>
    /\ UNCHANGED <<builder, perm, packages, units, arcs, expansions, constraints,
                   fixed, dofLog, initialized, solveLog, termination, failure>>

\* except Exception as e: print(f"Initialization failed: {str(e)}")
ExceptPrint ==
    /\ Running /\ Cur.op = "except_print"
    /\ Advance
    /\ UNCHANGED moduleVars
    /\ UNCHANGED <<args, origin, initLog, values, retval, reports, curve>>
    /\ UNCHANGED <<builder, perm, packages, units, arcs, expansions, constraints,
                   fixed, dofLog, initialized, solveLog, termination, reported,
                   failure>>

\* return m, result (or the end of a script)
Return ==
    /\ Running /\ Cur.op = "return"
    /\ status' = "returned"
    /\ retval' = IF builder \in SetupFunctions
                 THEN [model |-> "m", result |-> termination]
                 ELSE NoValue
    /\ UNCHANGED moduleVars
    /\ UNCHANGED <<args, origin, initLog, values, reports, curve>>
    /\ UNCHANGED <<builder, perm, pc, packages, units, arcs, expansions,
                   constraints, fixed, dofLog, initialized, solveLog, termination,
                   reported, failure>>

\* the report_* function of a builder, called on the model it returned:
\* every slot of the returned tuple holds the report() of some unit
ReportProperties ==
    /\ status = "returned"
    /\ reports = <<>>
    /\ ReportFunction(builder) # <<>>
    /\ reports' = ReportFunction(builder)
    /\ UNCHANGED moduleVars
    /\ UNCHANGED <<args, origin, initLog, values, retval, curve>>
    /\ UNCHANGED <<builder, perm, pc, status, packages, units, arcs, expansions,
                   constraints, fixed, dofLog, initialized, solveLog, termination,
                   reported, failure>>

\* the builder is about to start; m = ConcreteModel();
\* m.fs = FlowsheetBlock(dynamic=False) leave the flowsheet empty
EmptyFlowsheet ==
    /\ pc = 1
    /\ status = "loading"
    /\ origin = <<>>
    /\ initLog = <<>>
    /\ values = <<>>
    /\ retval = NoValue
    /\ reports = <<>>
    /\ curve = CurveIdle
    /\ packages = {}
    /\ units = {}
    /\ arcs = <<>>
    /\ expansions = 0
    /\ constraints = {}
    /\ fixed = {}
    /\ dofLog = <<>>
    /\ initialized = <<>>
    /\ solveLog = <<>>
    /\ termination = "none"
    /\ reported = FALSE
    /\ failure = NoFailure

\* a fresh interpreter: no module imported, nothing built
FreshInterpreter ==
    /\ configuration = [m \in ConfigModules |-> Unbound]
    /\ built = <<>>
    /\ calls = 1

Init ==
    /\ builder \in Builders
    /\ perm = Identity(Len(ArcStmts(builder)))
    /\ args \in CallForms(builder)
    /\ EmptyFlowsheet
    /\ FreshInterpreter

\* the largest number of builder calls made in one interpreter
MaxCalls == 2

\* another setup_* function is imported and called in the same interpreter,
\* after the previous call returned or raised: a new ConcreteModel, the
\* modules already imported stay as they are
CallAgain ==
    /\ builder \in SetupFunctions
    /\ status \in {"returned", "failed"}
    /\ calls < MaxCalls
    /\ calls' = calls + 1
    /\ builder' \in SetupFunctions
    /\ perm' = Identity(Len(ArcStmts(builder')))
    /\ args' \in CallForms(builder')
    /\ pc' = 1
    /\ status' = "loading"
    /\ origin' = <<>>
    /\ initLog' = <<>>
    /\ values' = <<>>
    /\ retval' = NoValue
    /\ reports' = <<>>
    /\ packages' = {}
    /\ units' = {}
    /\ arcs' = <<>>
    /\ expansions' = 0
    /\ constraints' = {}
    /\ fixed' = {}
    /\ dofLog' = <<>>
    /\ initialized' = <<>>
    /\ solveLog' = <<>>
    /\ termination' = "none"
    /\ reported' = FALSE
    /\ failure' = NoFailure
    /\ UNCHANGED <<curve, configuration, built>>

Next ==
    \/ Import
    \/ Call
    \/ DeclarePackage
    \/ DeclareUnit
    \/ DeclareArc
    \/ ApplyExpandArcs
    \/ AnalyzeDOF
    \/ FixVar
    \/ InitializeUnit
    \/ Solve
    \/ Report
    \/ ReportIfOptimal
    \/ ExceptPrint
    \/ Return
    \/ ReportProperties
    \/ CallAgain

Spec == Init /\ [][Next]_vars

\* the builders with their Arc statements taken in any order
InitArcOrder ==
    /\ builder \in Builders
    /\ perm \in ArcOrders(Len(ArcStmts(builder)))
    /\ args \in CallForms(builder)
    /\ EmptyFlowsheet
    /\ FreshInterpreter

SpecArcOrder == InitArcOrder /\ [][Next]_vars

(***************************************************************************)
(* The performance-curve callback on its own: the rules of head_interp_eqn *)
(* and eff_interp_eqn run once, when the block is built, and the solve     *)
(* then holds the constraints they returned.                               *)
(***************************************************************************)

\* flows below the first breakpoint that are tried, down to -BelowRange
BelowRange == 500

\* the largest flow tried (the upper bound of flow_mol)
MaxFlow == 10000

\* spacing of the flows tried between the breakpoints
FlowStep == 250

\* the flow values tried: a grid, every breakpoint, and the script's flow
LookupFlows ==
    {f \in (0 - BelowRange)..MaxFlow : f % FlowStep = 0}
        \cup {flow_points[i] : i \in DOMAIN flow_points}
        \cup {flow_mol_initial, inlet_flow_mol}

flowsheetVars ==
    <<builder, perm, pc, status, packages, units, arcs, expansions,
      constraints, fixed, dofLog, initialized, solveLog, termination,
      reported, failure, args, origin, initLog, values, retval, reports>>

\* @blk.Constraint() def head_interp_eqn(b): the rule runs now, with the
\* value flow_mol holds now
BuildHeadInterpEqn ==
    /\ curve.stage = "start"
    /\ LET rule == head_interp_eqn(curve.flow_mol)
       IN  curve' = IF rule.kind \in Exceptions
                    THEN [curve EXCEPT !.stage = "error", !.error = rule.kind]
                    ELSE [curve EXCEPT !.stage = "head", !.head = rule]
    /\ UNCHANGED flowsheetVars
    /\ UNCHANGED moduleVars

\* @blk.Constraint() def eff_interp_eqn(b)
BuildEffInterpEqn ==
    /\ curve.stage = "head"
    /\ LET rule == eff_interp_eqn(curve.flow_mol)
       IN  curve' = IF rule.kind \in Exceptions
                    THEN [curve EXCEPT !.stage = "error", !.error = rule.kind]
                    ELSE [curve EXCEPT !.stage = "built", !.eff = rule]
    /\ UNCHANGED flowsheetVars
    /\ UNCHANGED moduleVars

\* the solved system: flow_link makes flow_mol the inlet flow, and
\* head_interp and eff_interp take the values the built constraints impose
SolveCurve ==
    /\ curve.stage = "built"
    /\ curve' = [curve EXCEPT
                    !.stage = "solved",
                    !.flow_mol = curve.inlet,
                    !.head_interp = Imposed(curve.head, curve.inlet),
                    !.eff_interp = Imposed(curve.eff, curve.inlet),
                    !.bounded = WithinBounds(curve.inlet,
                                             Imposed(curve.head, curve.inlet),
                                             Imposed(curve.eff, curve.inlet))]
    /\ UNCHANGED flowsheetVars
    /\ UNCHANGED moduleVars

\* the callback is entered from the PressureChanger declaration of the
\* script; flow_mol is initialized either as the source does and the inlet
\* flow is any flow, or at any flow and the inlet flow is that flow
InitCurve ==
    /\ builder = "pump_curves"
    /\ perm = Identity(Len(ArcStmts(builder)))
    /\ args = "none"
    /\ pc = 2
    /\ status = "callback"
    /\ packages = {[name |-> "properties", config |-> "iapws95"]}
    /\ units = {}
    /\ arcs = <<>>
    /\ expansions = 0
    /\ constraints = {}
    /\ fixed = {}
    /\ dofLog = <<>>
    /\ initialized = <<>>
    /\ solveLog = <<>>
    /\ termination = "none"
    /\ reported = FALSE
    /\ failure = NoFailure
    /\ origin = <<>>
    /\ initLog = <<>>
    /\ values = <<>>
    /\ retval = NoValue
    /\ reports = <<>>
    /\ FreshInterpreter
    /\ curve \in {CurveStart(flow_mol_initial, q) : q \in LookupFlows}
                   \cup {CurveStart(f, f) : f \in LookupFlows}

NextCurve ==
    \/ BuildHeadInterpEqn
    \/ BuildEffInterpEqn
    \/ SolveCurve

SpecCurve == InitCurve /\ [][NextCurve]_vars

(***************************************************************************)
(* The solved separator.  Separator(split_basis=totalFlow): the split      *)
(* fractions of the outlets sum to 1, and every outlet carries its split   *)
(* fraction of the inlet's total flow at the inlet's composition,          *)
(* temperature and pressure.                                               *)
(***************************************************************************)

SplitVar(name, outlet) == <<name, "", "split_fraction_" \o outlet>>

RECURSIVE SumFixedSplits(_, _, _)
SumFixedSplits(vals, name, outlets) ==
    IF outlets = {} THEN 0
    ELSE LET o == CHOOSE x \in outlets : TRUE
         IN  (IF SplitVar(name, o) \in DOMAIN vals THEN vals[SplitVar(name, o)] ELSE 0)
                 + SumFixedSplits(vals, name, outlets \ {o})

\* the split fraction of an outlet of separator u at the solution: the value
\* it was fixed at, or what the fixed ones leave of 1
SplitFraction(vals, u, outlet) ==
    IF SplitVar(u.name, outlet) \in DOMAIN vals
    THEN vals[SplitVar(u.name, outlet)]
    ELSE 1000 - SumFixedSplits(vals, u.name, u.list)

\* the value at the solution of a variable of the port an arc joins to the
\* inlet of unit u: the arc's equality makes it the inlet's value
InletValue(vals, as, u, var) ==
    LET k == CHOOSE i \in 1..Len(as) : as[i].dst = <<u.name, "inlet">>
    IN  vals[<<as[k].src[1], as[k].src[2], var>>]

\* the value at the solution of a variable of an outlet of separator u
SeparatorOutlet(vals, as, u, outlet, var) ==
    IF var = "flow_mol"
    THEN (SplitFraction(vals, u, outlet) * InletValue(vals, as, u, var)) \div 1000
    ELSE InletValue(vals, as, u, var)

(***************************************************************************)
(* Total molar flow at the solution.  The material balance of a heater, a  *)
(* pump, a compressor or a mixer makes the outlet flow the sum of the      *)
(* inlet flows; an arc makes its destination equal to its source.          *)
(***************************************************************************)

UnitNamed(us, name) == CHOOSE u \in us : u.name = name

\* the fixed value of a variable of the port an arc joins to port up
ArcSourceValue(vals, as, up, var) ==
    LET k == CHOOSE i \in 1..Len(as) : as[i].dst = up
    IN  vals[<<as[k].src[1], as[k].src[2], var>>]

Minimum(S) == CHOOSE x \in S : \A y \in S : x <= y

\* the outlet pressure of mixer u at the solution: the minimum of the inlet
\* pressures under the minimize policy, not determined (-1) without one
MixerOutletPressure(vals, as, u) ==
    IF momentum_mixing_type(u) = "minimize"
    THEN Minimum({ArcSourceValue(vals, as, <<u.name, p>>, "pressure") :
                     p \in {q.port : q \in {x \in Ports(u) : x.dir = "in"}}})
    ELSE -1

InPorts(u) == {p.port : p \in {q \in Ports(u) : q.dir = "in"}}

OutPorts(u) == {p.port : p \in {q \in Ports(u) : q.dir = "out"}}

RECURSIVE PortFlow(_, _, _, _)
RECURSIVE SumFlow(_, _, _, _, _)

\* flow_mol of port up = <<unit, port>> at the solution
PortFlow(vals, us, as, up) ==
    LET u == UnitNamed(us, up[1])
    IN  IF up[2] \in InPorts(u)
        THEN LET k == CHOOSE i \in 1..Len(as) : as[i].dst = up
             IN  PortFlow(vals, us, as, as[k].src)
        ELSE CASE u.kind = "Feed" -> vals[<<u.name, up[2], "flow_mol">>]
               [] u.kind = "Separator"
                     -> (SplitFraction(vals, u, up[2])
                            * SumFlow(vals, us, as, u.name, InPorts(u))) \div 1000
               [] u.kind \in {"Heater", "Pump", "IsentropicPump", "Compressor",
                              "Mixer"}
                     -> SumFlow(vals, us, as, u.name, InPorts(u))

\* sum of flow_mol over the given ports of a unit
SumFlow(vals, us, as, name, ports) ==
    IF ports = {} THEN 0
    ELSE LET p == CHOOSE x \in ports : TRUE
         IN  PortFlow(vals, us, as, <<name, p>>)
                 + SumFlow(vals, us, as, name, ports \ {p})

(***************************************************************************)
(* Well-formedness of the model itself.                                    *)
(***************************************************************************)

AllVars == UNION {UnitVars(packages, u) : u \in units}

\* every fixed variable is a variable of a declared unit, every unit names a
\* created package, and every arc joins ports of declared units
ModelWellFormed ==
    /\ fixed \subseteq AllVars
    /\ \A u \in units : \A p \in Ports(u) : ConfigOf(packages, p.pkg) # ""
    /\ \A i \in 1..Len(arcs) :
          PortPackage(units, arcs[i].src) # "" /\ PortPackage(units, arcs[i].dst) # ""

(***************************************************************************)
(* Properties.                                                             *)
(***************************************************************************)

\* every fix statement of the builder has run
FixesDone ==
    \A i \in 1..Len(Program(builder)) :
        Program(builder)[i].op = "fix" => Program(builder)[i].var \in fixed

\* the builder declares arcs
HasArcs == ArcStmts(builder) # <<>>

\* every unit and every arc the builder declares is on the flowsheet
AllDeclared ==
    /\ units = {UnitOf(UnitStmts(builder)[i]) : i \in 1..Len(UnitStmts(builder))}
    /\ Len(arcs) = Len(ArcStmts(builder))

\* C1: in every builder, once the arcs are expanded and every specification
\* of the builder is fixed, the degrees of freedom are exactly 0.
C1_DofZeroWhenSpecified ==
    (FixesDone /\ (HasArcs => expansions >= 1)) => DOF = 0

\* the two-package heat exchanger flowsheet, fully specified: ten fixes
C1_Witness ==
    /\ builder = "heat_exchanger"
    /\ FixesDone /\ expansions = 1
    /\ Cardinality(fixed) = 10
    /\ DOF = 0

\* C2: every invocation of the solver is made on a flowsheet whose degrees
\* of freedom are 0 at the call; no builder reaches the solver with DOF # 0.
C2_SolveOnlyWhenSquare ==
    \A i \in 1..Len(solveLog) : solveLog[i].dof = 0

\* the pump-curve script, which never asks for the DOF, after its solve
C2_Witness ==
    /\ builder = "pump_curves"
    /\ dofLog = <<>>
    /\ Len(solveLog) = 1
    /\ solveLog[1].dof = 0

\* C3 as claimed: in every flowsheet, expansion is invoked exactly once,
\* after all units and arcs are declared, and before the first DOF analysis.
C3_ExpandOnceBeforeFirstDof ==
    /\ expansions <= 1
    /\ expansions = 1 => AllDeclared
    /\ \A i \in 1..Len(dofLog) : dofLog[i].expansions = 1
    /\ status = "returned" => expansions = 1

\* C3 as amended: in every flowsheet that declares arcs, expansion is
\* invoked exactly once, after all units and arcs are declared, and before
\* every DOF analysis except the steam model's initial one (line 55, made
\* before any arc is declared); a flowsheet without arcs is never expanded.
C3_ExpandOnceWhereArcs ==
    /\ expansions <= 1
    /\ expansions = 1 => AllDeclared
    /\ \A i \in 1..Len(dofLog) :
          \/ dofLog[i].expansions = 1
          \/ /\ builder = "steam"
             /\ Program(builder)[dofLog[i].at].line = 55
             /\ dofLog[i].arcs = 0
    /\ status = "returned" => expansions = (IF HasArcs THEN 1 ELSE 0)

\* the steam model at its end: three analyses, the first before expansion
C3_Witness ==
    /\ builder = "steam" /\ status = "returned"
    /\ expansions = 1
    /\ Len(dofLog) = 3
    /\ dofLog[1].expansions = 0
    /\ dofLog[2].expansions = 1

\* the arcs of the flowsheet share no port
ArcsIndependent ==
    \A i, j \in 1..Len(arcs) :
        i # j => {arcs[i].src, arcs[i].dst} \cap {arcs[j].src, arcs[j].dst} = {}

\* the builder's arcs in source order
SourceOrderArcs ==
    [i \in 1..Len(ArcStmts(builder)) |-> ArcOf(ArcStmts(builder)[i])]

C6_ArcsJoinSamePackage ==
    \A i \in 1..Len(arcs) :
        /\ PortPackage(units, arcs[i].src) # ""
        /\ PortPackage(units, arcs[i].src) = PortPackage(units, arcs[i].dst)

\* the heat exchanger flowsheet with its four arcs, two on each package
C6_Witness ==
    /\ builder = "heat_exchanger"
    /\ Len(arcs) = 4
    /\ Cardinality({i \in 1..4 : PortPackage(units, arcs[i].src) = "properties"}) = 2
    /\ Cardinality({i \in 1..4 : PortPackage(units, arcs[i].src) = "steam_properties"}) = 2

HeatDuty == <<"heater", "", "heat_duty">>

FiveFeedVars == {<<"feed", "outlet", v>> : v \in MethanolEthanolSchema}

\* C7: in the heater builder, when the five feed variables are fixed and the
\* duty is about to be fixed the DOF is 1, and once the duty is fixed it is 0.
C7_HeaterScenarioA ==
    builder = "heater_duty" =>
        /\ (Running /\ Cur.op = "fix" /\ Cur.var = HeatDuty)
               => (fixed = FiveFeedVars /\ DOF = 1)
        /\ HeatDuty \in fixed
               => (fixed = FiveFeedVars \cup {HeatDuty} /\ DOF = 0)

\* after line 57: DOF is 0, and was 1 with the duty still free
C7_Witness ==
    /\ builder = "heater_duty"
    /\ fixed = FiveFeedVars \cup {HeatDuty}
    /\ DOF = 0
    /\ DegreesOfFreedom(packages, units, constraints, FiveFeedVars) = 1

\* C8 as claimed: variable values are printed as results of a solve only if
\* its termination condition is optimal.
C8_ReportedOnlyIfOptimal ==
    reported => termination = "optimal"

\* C9 as claimed: the solver is invoked at most once in a run.
C9_SolveAtMostOnce ==
    Len(solveLog) <= 1

InitFailed == failure.kind = "InitializationError"

\* the units whose initialize() statements precede statement i
RECURSIVE InitsBefore(_, _)
InitsBefore(b, i) ==
    IF i <= 1 THEN <<>>
    ELSE IF Program(b)[i - 1].op = "init"
         THEN Append(InitsBefore(b, i - 1), Program(b)[i - 1].name)
         ELSE InitsBefore(b, i - 1)

\* the failure names the unit of the failing statement and only the units
\* before it are initialized
FailFastInit ==
    /\ Program(builder)[failure.at].op = "init"
    /\ Program(builder)[failure.at].name = failure.unit
    /\ initialized = InitsBefore(builder, failure.at)

\* C10 as claimed: after a unit's initialization fails, no later unit is
\* initialized, the solver is not run, and the failure names the unit.
C10_InitFailFast ==
    InitFailed => (FailFastInit /\ solveLog = <<>>)

\* C10 as amended: after a unit's initialization fails, no later unit is
\* initialized and the failure names the unit; the builder is left and the
\* solver not run, except in the pump-curve script, whose handler goes on to
\* run the solver once.
C10_InitFailFastExceptCurve ==
    InitFailed =>
        /\ FailFastInit
        /\ IF builder = "pump_curves"
           THEN /\ Len(solveLog) <= 1
                /\ \A i \in 1..Len(solveLog) :
                      solveLog[i].at > TryBlock(builder).handler
           ELSE status = "failed" /\ solveLog = <<>>

\* the heat exchanger's own initialization fails after both feeds succeeded
C10_Witness ==
    /\ builder = "heat_exchanger"
    /\ InitFailed
    /\ failure.unit = "heat_exchanger"
    /\ initialized = <<"feed", "cooling_water_in">>
    /\ status = "failed"

\* the units with an arc into a unit of S
DirectFeeders(S) ==
    {arcs[k].src[1] : k \in {i \in 1..Len(arcs) : arcs[i].dst[1] \in S}}

RECURSIVE FeederClosure(_)
FeederClosure(S) ==
    IF DirectFeeders(S) \subseteq S THEN S
    ELSE FeederClosure(S \cup DirectFeeders(S))

\* the units that feed u through the arcs, directly or transitively
Upstream(u) == FeederClosure(DirectFeeders({u}))

\* C11: units are initialized in topological order of the flowsheet: when a
\* unit's initialize() has returned, every unit that feeds it through arcs,
\* directly or transitively, was initialized before it.
C11_InitTopologicalOrder ==
    \A i \in 1..Len(initialized) :
        Upstream(initialized[i]) \subseteq {initialized[j] : j \in 1..(i - 1)}

\* a unit with a direct and a transitive feeder has been initialized
C11_Witness ==
    \E i \in 1..Len(initialized) :
        /\ Cardinality(Upstream(initialized[i])) >= 2
        /\ DirectFeeders({initialized[i]}) # Upstream(initialized[i])

\* C12: when a unit is initialized after a unit that feeds it through an
\* arc, the inlet it is fed through holds, as its guess, the values copied
\* across the arc from the upstream unit's converged outlet.
C12_InletGuessPropagated ==
    \A i \in 1..Len(initLog) :
        initLog[i].fed # {} => initLog[i].guess = {"copied"}

LastPoint == Len(flow_data_mol_s) - 1

Built == curve.stage \in {"built", "solved"}

InterpolatedAt(points, q) ==
    Imposed(SegmentRule(points, FirstOf(Bracketing(q))), q)

InRange(q) == flow_points[0] <= q /\ q <= flow_points[LastPoint]

\* C14: for every inlet flow fixed within the curve's range, the head and the
\* efficiency of the solved system are the linear interpolation within the
\* segment that brackets that flow.
C14_SegmentBracketsSolvedFlow ==
    (curve.stage = "solved" /\ InRange(curve.inlet))
        => /\ curve.head_interp = InterpolatedAt(head_points, curve.inlet)
           /\ curve.eff_interp = InterpolatedAt(eff_points, curve.inlet)

StrictlyIncreasing(seq) ==
    \A i \in 1..(Len(seq) - 1) : seq[i] < seq[i + 1]

\* C17: the breakpoints are strictly increasing in flow, in the m3/h data
\* and after conversion to mol/s, so no segment has zero width (building a
\* slope never divides by zero) and every flow within the range is
\* bracketed by a segment.
C17_BreakpointsIncreasing ==
    /\ StrictlyIncreasing(flow_data_m3h)
    /\ StrictlyIncreasing(flow_data_mol_s)
    /\ \A i \in Segments : flow_points[i + 1] - flow_points[i] > 0
    /\ curve.error # "ZeroDivisionError"
    /\ (curve.stage # "idle" /\ InRange(curve.built_at))
          => Bracketing(curve.built_at) # {}
    /\ (Built /\ InRange(curve.built_at))
          => curve.head.kind = "line" /\ curve.head.run > 0

\* both constraints were built for a flow inside the range
C17_Witness ==
    /\ Built
    /\ InRange(curve.built_at)
    /\ curve.head.kind = "line"
    /\ curve.eff.kind = "line"

\* C18: every setup_* function has a default for each of its parameters, so
\* a call with no argument binds them all and raises no TypeError, and when
\* it returns it returns the pair (model, result of the solve).
C18_CallableWithoutArguments ==
    builder \in SetupFunctions
        => /\ Defaulted(builder) = Parameters(builder)
           /\ args = "none" => failure.kind # "TypeError"
           /\ status = "returned"
                 => retval = [model |-> "m", result |-> termination]

TheSeparator == CHOOSE u \in units : u.name = "separator"

FeedFlow == <<"feed", "outlet", "flow_mol">>

\* C19: the separator builder called with its defaults (inlet flow 100
\* mol/s) fixes split_fraction[To_Vessel_1] at 0.2, and at the solution the
\* split fractions of the two outlets sum to 1, To_Vessel_1 carries 20
\* mol/s, To_Vessel_2 carries 80 mol/s and both outlets have the inlet's
\* composition.
C19_SeparatorScenarioB ==
    (builder = "separator" /\ args = "none" /\ termination = "optimal")
        => LET Out(o, var) == SeparatorOutlet(values, arcs, TheSeparator, o, var)
               Frac(o)     == SplitFraction(values, TheSeparator, o)
           IN  /\ values[FeedFlow] = 100
               /\ Frac("To_Vessel_1") = 200
               /\ Frac("To_Vessel_1") + Frac("To_Vessel_2") = 1000
               /\ Out("To_Vessel_1", "flow_mol") = 20
               /\ Out("To_Vessel_2", "flow_mol") = 80
               /\ \A o \in TheSeparator.list :
                     \A x \in {"mole_frac_comp_methanol", "mole_frac_comp_ethanol"} :
                         Out(o, x) = values[<<"feed", "outlet", x>>]

\* the separator builder, called with its defaults, has solved to optimality
\* and returned
C19_Witness ==
    /\ builder = "separator"
    /\ args = "none"
    /\ termination = "optimal"
    /\ status = "returned"
    /\ SplitVar("separator", "To_Vessel_1") \in DOMAIN values

\* C20: report_separator_properties returns, in order, the reports of the
\* feed, the separator, the to_vessel_1 product and the to_vessel_2 product,
\* each produced by the unit it is named after.
C20_SeparatorReportsNamedUnits ==
    (builder = "separator" /\ reports # <<>>)
        => [i \in 1..Len(reports) |-> reports[i].unit]
              = <<"feed", "separator", "to_vessel_1", "to_vessel_2">>

NonEquilibriumKinds == {"Heater", "Pump", "Mixer", "Separator"}

\* the setup_* functions whose flowsheet has non-equilibrium units only
NonEquilibriumBuilders ==
    {"heater_duty", "heater_temp", "pump", "mixer", "separator"}

\* C21: at a converged solution, for every heater, pump, mixer and
\* separator the total molar flow of the outlets sums to that of the
\* inlets, and the mixer builder with its two default 100 mol/s feeds
\* delivers 200 mol/s to the product.
C21_MassConservation ==
    (builder \in NonEquilibriumBuilders /\ termination = "optimal")
        => /\ \A u \in units :
                 u.kind \in NonEquilibriumKinds
                     => SumFlow(values, units, arcs, u.name, OutPorts(u))
                           = SumFlow(values, units, arcs, u.name, InPorts(u))
           /\ (builder = "mixer" /\ args = "none")
                 => /\ values[<<"methanol_feed", "outlet", "flow_mol">>] = 100
                    /\ values[<<"ethanol_feed", "outlet", "flow_mol">>] = 100
                    /\ PortFlow(values, units, arcs, <<"product", "inlet">>) = 200

\* the mixer builder, called with its defaults, has converged
C21_Witness ==
    /\ builder = "mixer"
    /\ args = "none"
    /\ termination = "optimal"
    /\ \E u \in units : u.kind = "Mixer"

TheMixer == CHOOSE u \in units : u.kind = "Mixer"

MixerInletPressures ==
    {ArcSourceValue(values, arcs, <<TheMixer.name, p>>, "pressure") :
        p \in InPorts(TheMixer)}

\* C22: the mixer is built with the minimize momentum-mixing policy; at a
\* solution its outlet pressure is the minimum of the inlet pressures,
\* whatever the two inlet pressures are, and the flowsheet is square with
\* the feed variables alone fixed: the policy leaves nothing to specify on
\* the mixer.
C22_MixerMinimumPressure ==
    (builder = "mixer" /\ termination = "optimal")
        => /\ momentum_mixing_type(TheMixer) = "minimize"
           /\ \A i \in 1..Len(solveLog) : solveLog[i].dof = 0
           /\ \A v \in fixed : v[1] # TheMixer.name
           /\ MixerOutletPressure(values, arcs, TheMixer) \in MixerInletPressures
           /\ \A q \in MixerInletPressures :
                 MixerOutletPressure(values, arcs, TheMixer) <= q

\* the mixer has converged with two different inlet pressures
C22_Witness ==
    /\ builder = "mixer"
    /\ termination = "optimal"
    /\ Cardinality(MixerInletPressures) = 2

(***************************************************************************)
(* C24: building units, expanding arcs, fixing, initializing and solving   *)
(* never change the module-level configuration mapping: after any sequence *)
(* of builder calls every imported mapping is still the one its module     *)
(* wrote, and two packages built from the same mapping, in the same call   *)
(* or in different calls, expose the same state variables.                 *)
(***************************************************************************)
C24_ConfigurationNeverMutated ==
    /\ \A m \in ConfigModules :
          configuration[m].loaded
              => configuration[m].mapping = ConfigurationDisplay(m)
    /\ \A i, j \in 1..Len(built) :
          built[i].config = built[j].config => built[i].schema = built[j].schema

\* a second builder call has built its package from the mapping the first
\* call used, and has solved and returned
C24_Witness ==
    /\ calls = 2
    /\ status = "returned"
    /\ termination = "optimal"
    /\ \E i, j \in 1..Len(built) :
          /\ built[i].call = 1 /\ built[j].call = 2
          /\ built[i].config = built[j].config

\* the keys every configuration mapping has to have
RequiredKeys ==
    {"components", "phases", "base_units", "state_definition", "state_bounds",
     "pressure_ref", "temperature_ref"}

\* every parameter_data entry, the selector eqn_type aside, is a
\* (value, unit) pair
CoefficientsArePairs(component) ==
    \A k \in DOMAIN component.parameter_data :
        k[2] # "eqn_type" => component.parameter_data[k].shape = "pair"

WellFormedConfiguration(m) ==
    /\ RequiredKeys \subseteq DOMAIN m
    /\ \A v \in DOMAIN m.state_bounds :
          /\ Len(m.state_bounds[v]) = 4
          /\ m.state_bounds[v][1] <= m.state_bounds[v][2]
          /\ m.state_bounds[v][2] <= m.state_bounds[v][3]
    /\ \A pair \in m.phases_in_equilibrium :
          /\ pair \in DOMAIN m.phase_equilibrium_state
          /\ \A c \in DOMAIN m.components :
                pair \in DOMAIN m.components[c].phase_equilibrium_form
    /\ \A c \in DOMAIN m.components : CoefficientsArePairs(m.components[c])

(***************************************************************************)
(* C25: both configuration mappings are well formed (the required keys,    *)
(* ordered state bounds, an equilibrium state and form for every pair of   *)
(* phases in equilibrium, (value, unit) pairs as coefficients), so that    *)
(* neither importing a configuration module nor building its package       *)
(* fails: once a builder's imports have run, each configuration it imports *)
(* is bound to a well-formed mapping.                                      *)
(***************************************************************************)
C25_ConfigurationsWellFormed ==
    \A m \in Imported(builder) :
        status # "loading"
            => /\ configuration[m].loaded
               /\ WellFormedConfiguration(configuration[m].mapping)
               /\ WellFormedConfiguration(ConfigurationDisplay(m))

\* a step of the current builder call that fixes something
FixStep == calls' = calls /\ fixed' # fixed

(***************************************************************************)
(* C26: in every builder, each fix of a free variable lowers the degrees   *)
(* of freedom by exactly 1 and changes nothing else of the flowsheet; the  *)
(* degrees of freedom are never negative after a fix and are 0 after the   *)
(* builder's last fix (no builder over-specifies).                         *)
(***************************************************************************)
C26_EachFixLowersDofByOne ==
    [][FixStep =>
          /\ fixed \subseteq fixed'
          /\ Cardinality(fixed' \ fixed) = 1
          /\ DOF' = DOF - 1
          /\ DOF' >= 0
          /\ FixesDone' => DOF' = 0
          /\ UNCHANGED <<packages, units, arcs, expansions, constraints>>]_vars

\* the pump flowsheet with Pump_4's outlet pressure fixed, its pressure
\* change free and one specification still missing
C26_Witness ==
    /\ builder = "pump"
    /\ <<"Pump_4", "outlet", "pressure">> \in fixed
    /\ <<"Pump_4", "", "deltaP">> \notin fixed
    /\ DOF = 1

\* a flow within the bounds of the flow variable, (0, 100) mol/s
InFlowBounds(q) == 0 <= q /\ q <= 10000

(***************************************************************************)
(* C27: for every flow within the bounds of the flow variable, [0, 100]    *)
(* mol/s, the lookup returns a head within [0, 3000] J/kg and an           *)
(* efficiency within [0, 0.75]: building the two constraints raises        *)
(* nothing, and the values they impose on head_interp and eff_interp at    *)
(* the solution lie within the bounds of these variables.                  *)
(***************************************************************************)
C27_LookupWithinBounds ==
    (curve.stage # "idle" /\ InFlowBounds(curve.built_at)
                          /\ InFlowBounds(curve.inlet))
        => /\ curve.stage # "error"
           /\ curve.stage = "solved" => curve.bounded

\* the port <<unit, port>> exists on a declared unit, with direction dir
IsPort(up, dir) ==
    \E u \in units : u.name = up[1]
        /\ \E q \in Ports(u) : q.port = up[2] /\ q.dir = dir

\* arcs go from an outlet port to an inlet port, and no port ends two arcs
ArcsWellFormed ==
    /\ \A i \in 1..Len(arcs) :
          IsPort(arcs[i].src, "out") /\ IsPort(arcs[i].dst, "in")
    /\ \A i, j \in 1..Len(arcs) :
          i # j => arcs[i].src # arcs[j].src /\ arcs[i].dst # arcs[j].dst

\* every inlet port of every unit that is not a feed has exactly one
\* incoming arc
InletsFed ==
    \A u \in units : \A q \in Ports(u) :
        q.dir = "in"
            => Cardinality({i \in 1..Len(arcs) :
                               arcs[i].dst = <<u.name, q.port>>}) = 1

\* no unit feeds itself, directly or through other units
Acyclic == \A u \in units : u.name \notin Upstream(u.name)

\* C28 as stated: every flowsheet's topology is well formed: arcs go from
\* outlet ports to inlet ports, no port ends more than one arc, every inlet
\* port of every non-feed unit has exactly one incoming arc, and the unit
\* graph is acyclic.
C28_TopologyWellFormed ==
    /\ ArcsWellFormed
    /\ Acyclic
    /\ AllDeclared => InletsFed

(***************************************************************************)
(* C28: in every flowsheet arcs go from outlet ports to inlet ports, no    *)
(* port ends more than one arc and the unit graph is acyclic; in every     *)
(* flowsheet that declares arcs, once they are all declared, every inlet   *)
(* port of every non-feed unit has exactly one incoming arc.  (The         *)
(* pump-curve script declares one unit and no arc; its inlet is fixed.)    *)
(***************************************************************************)
C28_TopologyWellFormedWhereArcs ==
    /\ ArcsWellFormed
    /\ Acyclic
    /\ (AllDeclared /\ HasArcs) => InletsFed

\* the steam model with its four arcs declared: the flash feeds two
\* products and is fed by the pump
C28_Witness ==
    /\ builder = "steam"
    /\ AllDeclared
    /\ Len(arcs) = 4
    /\ Upstream("three") = {"one", "Pump_1", "Flash_1"}

\* the feeds of the flowsheet whose package is built from a configuration
\* mapping
GenericFeeds ==
    {u \in units : u.kind = "Feed" /\ ConfigOf(packages, u.pkg) \in ConfigModules}

\* the mole-fraction variables of a feed
FractionVars(u) ==
    {v \in UnitVars(packages, u) :
        v[3] \notin {"flow_mol", "temperature", "pressure"}}

RECURSIVE SumMilli(_, _)
SumMilli(vals, vs) ==
    IF vs = {} THEN 0
    ELSE LET v == CHOOSE x \in vs : TRUE
         IN  vals[v].milli + SumMilli(vals, vs \ {v})

RECURSIVE SumFemto(_, _)
SumFemto(vals, vs) ==
    IF vs = {} THEN 0
    ELSE LET v == CHOOSE x \in vs : TRUE
         IN  vals[v].femto + SumFemto(vals, vs \ {v})

\* the fixed flows, temperatures and pressures of state blocks whose
\* package declares state bounds
BoundedVars ==
    {v \in DOMAIN values :
        /\ v[3] \in {"flow_mol", "temperature", "pressure"}
        /\ ConfigOf(packages, PortPackage(units, <<v[1], v[2]>>)) \in ConfigModules}

\* the state_bounds entry of a variable
StateBounds(v) ==
    configuration[ConfigOf(packages, PortPackage(units, <<v[1], v[2]>>))]
        .mapping.state_bounds[v[3]]

\* the value fixed, in the unit the bounds are kept in
InBoundsUnit(v) == IF v[3] = "temperature" THEN 100 * values[v] ELSE values[v]

WithinStateBounds ==
    \A v \in BoundedVars :
        StateBounds(v)[1] <= InBoundsUnit(v) /\ InBoundsUnit(v) <= StateBounds(v)[3]

\* C29 as stated: with every builder's default parameters, the fractions
\* fixed on a feed sum to exactly 1, and every fixed flow, temperature and
\* pressure lies within the declared state bounds.
C29_FeedValuesRespectPackage ==
    args = "none"
        => /\ \A u \in GenericFeeds :
                 FractionVars(u) \subseteq DOMAIN values
                     => /\ SumMilli(values, FractionVars(u)) = 1000
                        /\ SumFemto(values, FractionVars(u)) = 0
           /\ WithinStateBounds

(***************************************************************************)
(* C29: with every builder's default parameters, the fractions fixed on a  *)
(* feed sum to exactly 1, except on the two feeds of the mixer, where they *)
(* are 1.0 and 1e-15 and sum to 1 + 1e-15; every fixed flow, temperature   *)
(* and pressure (the heater outlet temperature and Pump_4's outlet         *)
(* pressure too) lies within the declared state bounds.                    *)
(***************************************************************************)
C29_FeedValuesRespectPackageButMixer ==
    args = "none"
        => /\ \A u \in GenericFeeds :
                 FractionVars(u) \subseteq DOMAIN values
                     => /\ SumMilli(values, FractionVars(u)) = 1000
                        /\ SumFemto(values, FractionVars(u))
                               = IF builder = "mixer" THEN 1 ELSE 0
           /\ WithinStateBounds

\* the heater of scenario B called with its defaults: the feed and the
\* outlet temperature are fixed
C29_Witness ==
    /\ builder = "heater_temp" /\ args = "none"
    /\ FixesDone
    /\ \E u \in GenericFeeds : FractionVars(u) \subseteq DOMAIN values
    /\ \E v \in BoundedVars : v[2] = "outlet" /\ v[1] # "feed" /\ values[v] = 350

====
